---- MODULE Spec2Model ----
(***************************************************************************)
(* Model of the RL routing engine of ai-loadbalancer:                      *)
(*   rl_agent/rl_decision_api.py   CircuitBreaker, /decide, /feedback      *)
(*   rl_agent/cpu/action_selector.py   ActionSelector                      *)
(*   rl_agent/cpu/q_learning_agent.py  QLearningAgent                      *)
(*   rl_agent/cpu/state_encoder.py     StateEncoder                        *)
(*   rl_agent/utils/persistence.py     ModelPersistence                    *)
(*   rl_agent/collectors/loadbalancer_client.py, utils/simple_cache.py     *)
(*                                                                         *)
(* Conventions.                                                            *)
(*  - Time is discrete: every time.time() reading is a whole number of     *)
(*    ticks of TickSeconds seconds; the code's comparisons are made on the *)
(*    readings converted back to seconds or milliseconds.                  *)
(*  - Floats are fixed point: Q-values, rewards and UCB scores are in      *)
(*    thousandths, epsilon in ten-thousandths, metrics in whole percent or *)
(*    milliseconds.  None is the value NONE.                               *)
(*  - random.choice / random.random are nondeterministic choices: an       *)
(*    operator that models a randomised function returns the SET of values *)
(*    it can return.                                                       *)
(*  - The /decide and /feedback handlers are async functions without any   *)
(*    await, so each runs to completion on the event loop: one action per  *)
(*    handler.                                                             *)
(*  - ModelPersistence.save_model is a sequence of file operations, each   *)
(*    of which can fail: one action per operation.                         *)
(***************************************************************************)
EXTENDS Integers, Sequences, FiniteSets, TLC

VARIABLES
    now,                      \* the clock, in ticks
    service_discovery_cache,  \* rl_decision_api.service_discovery_cache
    SERVICE_CACHE,            \* utils.simple_cache.SERVICE_CACHE.cache
    metrics_cache,            \* rl_decision_api.metrics_cache
    decision_cache,           \* rl_decision_api.decision_cache
    cache_rotation_counter,   \* rl_decision_api.cache_rotation_counter
    load_balancing_tracker,   \* rl_decision_api.load_balancing_tracker
    decision_context_cache,   \* rl_decision_api.decision_context_cache
    cb,                       \* rl_circuit_breaker: state, failure_count, last_failure_time
    q_table,                  \* QLearningAgent.q_table
    current_state,            \* QLearningAgent.current_state
    previous_state,           \* QLearningAgent.previous_state
    last_action,              \* QLearningAgent.last_action
    current_epsilon,          \* QLearningAgent.current_epsilon
    episode_count,            \* QLearningAgent.episode_count
    action_history,           \* ActionSelector.action_history
    call_log,                 \* outcomes of the agent calls the breaker let through
    decision_log,             \* the last decisions /decide returned, where the run keeps them
    state_encoder,            \* rl_agent.state_encoder: is_fitted, discretizers, state_cache
    files,                    \* the model directory: the model file, backups/, temporary files
    saving,                   \* the save_model call in progress and the outcome of the last one
    rl_settings,              \* config.rl_settings: the mode flags and the q_learning schedule
    workers,                  \* the requests in flight: each handler's position and locals
    cache_lock,               \* rl_decision_api.cache_lock: the worker holding it, or NONE
    feedback_log,             \* the updates the /feedback calls of the run were due to apply
    op_count,                 \* /feedback calls served; calls made in the function specifications
    last                      \* what the last operation was given and what it returned

vars == <<now, service_discovery_cache, SERVICE_CACHE, metrics_cache, decision_cache,
          cache_rotation_counter, load_balancing_tracker, decision_context_cache,
          cb, q_table, current_state, previous_state, last_action,
          current_epsilon, episode_count, action_history, call_log,
          decision_log, state_encoder, files, saving, rl_settings, workers,
          cache_lock, feedback_log, op_count, last>>

storeVars == <<state_encoder, files, saving>>

workerVars == <<workers, cache_lock, feedback_log>>

----------------------------------------------------------------------------
(* Bounds of the model *)

TickSeconds == 15     \* seconds per clock tick
MaxTime == 3          \* the later arrival time, in ticks, of the decision specification
MaxRequests == 5      \* /decide calls per run
MaxBreakerRequests == 7   \* /decide calls per run of the breaker specification
MaxBreakerTime == 3       \* clock ticks per run of the breaker specification
MaxFeedbackRequests == 3  \* /decide and /feedback calls per run of the feedback specification
MaxFeedbackTime == 2      \* clock ticks per run of the feedback specification
MaxBalanceRequests == 14  \* /decide calls per run of the balancing specification
MaxBalanceTime == 3       \* the later arrival time, in ticks, of the balancing specification
MaxDiscoveryRequests == 4 \* /decide calls per run of the discovery specification
MaxDiscoveryTime == 3     \* clock ticks per run of the discovery specification
MaxAgentSteps == 3        \* agent calls per run of the agent specification
MaxStoreSteps == 4        \* save, load, reset and fit calls per run of the store specification
MaxEncoderCalls == 3      \* encode_state and fit calls per run of the encoder specification
MaxEncoderTime == 1       \* clock ticks per run of the encoder specification
MaxWorkers == 2           \* requests in flight at a time in the worker specification
MaxWorkerRequests == 3    \* requests per run of the worker specification
MaxModeRequests == 3      \* /decide calls per run of the mode specification
MaxCycles == 100          \* /decide then /feedback cycles per run of the learning specification
MaxServiceRequests == 4   \* /decide and /feedback calls and restarts per run of the service
MaxModeSwitches == 3      \* /benchmark-mode calls per run of the mode specification
MaxSelections == 1    \* select_action calls per run of the selector specification
MaxCycleSteps == 5        \* agent calls per run of the agent's own cycle
MaxEpisodes == 1          \* start_episode calls per run of the agent's own cycle
MaxContextRequests == 3   \* /decide and /feedback calls per service per run with two services
MaxContextTime == 1       \* ticks per run with two services
MaxRegistryRequests == 4  \* /decide calls per run with a changing registry
MaxRegistryTime == 3      \* the time, in ticks, of the late requests with a changing registry
MaxUpdates == 2       \* _update_q_value calls per run of the update specification

(* Program constants *)

CACHE_TTL_DECISION_MS == 50
CACHE_TTL_SERVICES_MS == 5000
SERVICE_CACHE_TTL == 30
METRICS_TTL == 500
ROTATION_INTERVAL == 3
DECISION_CONTEXT_WINDOW == 30
failure_threshold == 3
recovery_timeout == 20
learning_rate_pct == 30
discount_factor_pct == 95
epsilon_start == 2500
epsilon_min == 100
epsilon_decay_pct == 99
exploration_episodes == 100
production_epsilon == 200
min_epsilon_for_balancing == 200
CPU_SAFETY_LIMIT == 95
MEMORY_SAFETY_LIMIT == 95
ERROR_RATE_SAFETY_LIMIT == 10
UCB_MIN_HISTORY == 10
TOLERANCE_FLOOR == 200
TOLERANCE_PCT == 15
NO_METRICS_PENALTY == 10000
latency_weight_pct == 35
error_rate_weight_pct == 35
throughput_weight_pct == 15
utilization_balance_weight_pct == 10
stability_weight_pct == 5
response_time_threshold_ms == 100
error_rate_threshold_pm == 50      \* 0.05, in thousandths
cpu_bins == 16
memory_bins == 16
latency_bins == 20
error_rate_bins == 12
throughput_bins == 16
STATE_CACHE_TTL == 5
backup_count == 5
WINDOW == 10        \* the selections the balancing tracker keeps
MAX_SHARE == 8      \* selections of one pod in a window before the override

NONE == -1
NoState == <<>>
NoAction == "none"
SERVICE == <<"s", "v", "c">>   \* a service name, as its characters
ALL_SERVICES == "all_services"   \* the key of get_registered_services in SERVICE_CACHE
ANON == "anon"                \* an instance record without instanceName and url

\* a worker without a request
Idle == [pc |-> "idle"]

\* no request in flight
NoWorkers == [w \in 1..MaxWorkers |-> Idle]

\* RLAgentSettings(): the mode flags and the fields of q_learning that
\* enable_benchmark_mode and disable_benchmark_mode write
RLAgentSettings ==
    [benchmark_mode |-> FALSE, enable_production_mode |-> FALSE,
     epsilon_start |-> epsilon_start, epsilon_min |-> epsilon_min,
     epsilon_decay_pct |-> epsilon_decay_pct, production_epsilon |-> production_epsilon]

----------------------------------------------------------------------------
(* Sequence helpers *)

Range(s) == {s[i] : i \in 1..Len(s)}

\* s[-n:]
LastN(s, n) == IF Len(s) <= n THEN s ELSE SubSeq(s, Len(s) - n + 1, Len(s))

\* s.count(x)
Count(s, x) == Cardinality({i \in 1..Len(s) : s[i] = x})

Max2(a, b) == IF a >= b THEN a ELSE b
Min2(a, b) == IF a <= b THEN a ELSE b
Abs(x) == IF x < 0 THEN -x ELSE x
SetMin(S) == CHOOSE x \in S : \A y \in S : x <= y
SetMax(S) == CHOOSE x \in S : \A y \in S : x >= y

\* dict.get(key, default) on a function
Get(f, k, d) == IF k \in DOMAIN f THEN f[k] ELSE d

\* One cache entry, the tuple (value, cache_time)
Entry(v, t) == [value |-> v, time |-> t]

\* f with f[k] = v, adding the key when absent
Put(f, k, v) == [x \in DOMAIN f \cup {k} |-> IF x = k THEN v ELSE f[x]]

----------------------------------------------------------------------------
(* ActionSelector (cpu/action_selector.py) *)

\* One ServiceMetrics record; an absent (None) field is NONE.
Metric(id, cpu, mem, rt, err, rps) ==
    [instance_id |-> id, cpu_usage_percent |-> cpu, jvm_memory_usage_percent |-> mem,
     avg_response_time_ms |-> rt, error_rate_percent |-> err,
     request_rate_per_second |-> rps]

\* One action_history entry (the fields the selector reads back).
HistoryEntry(state_key, action) == [state |-> state_key, action |-> action]

\* [h['action'] for h in history]
ActionsOf(history) == [i \in 1..Len(history) |-> history[i].action]

\* ActionSelector._is_safe_to_explore: no metrics, or no metrics for the action,
\* counts as safe; the first record of the action decides otherwise.
is_safe_to_explore(action, current_metrics) ==
    IF current_metrics = <<>> THEN TRUE
    ELSE LET idx == {i \in 1..Len(current_metrics) :
                        current_metrics[i].instance_id = action}
         IN IF idx = {} THEN TRUE
            ELSE LET m == current_metrics[SetMin(idx)]
                 IN /\ ~(m.cpu_usage_percent # NONE
                         /\ m.cpu_usage_percent > CPU_SAFETY_LIMIT)
                    /\ ~(m.jvm_memory_usage_percent # NONE
                         /\ m.jvm_memory_usage_percent > MEMORY_SAFETY_LIMIT)
                    /\ ~(m.error_rate_percent # NONE
                         /\ m.error_rate_percent > ERROR_RATE_SAFETY_LIMIT)

\* ActionSelector._get_action_counts, read with .get(action, 0)
action_count(history, action) == Count(ActionsOf(history), action)

\* ActionSelector._calculate_action_diversity < 0.3, as 10*unique < 3*total
low_diversity(history) ==
    IF Len(history) < 10 THEN FALSE
    ELSE LET recent == LastN(ActionsOf(history), 20)
         IN 10 * Cardinality(Range(recent)) < 3 * Len(recent)

RECURSIVE Pow(_, _)
Pow(b, e) == IF e = 0 THEN 1 ELSE b * Pow(b, e - 1)

\* ActionSelector._calculate_adaptive_epsilon, in ten-thousandths.
\* _get_recent_performance_score is the constant 0.5, so the reduction of
\* step 3 (performance_score > 0.7) never applies.
calculate_adaptive_epsilon(base_epsilon, episode, history, benchmark_mode) ==
    IF benchmark_mode THEN production_epsilon
    ELSE LET decayed == Max2(epsilon_min,
                             (base_epsilon * Pow(epsilon_decay_pct, episode))
                                 \div Pow(100, episode))
             boosted == IF Len(history) > 50 /\ low_diversity(history)
                        THEN Min2(10000, (decayed * 15) \div 10)
                        ELSE decayed
         IN Max2(min_epsilon_for_balancing, boosted)

\* ln(t) in thousandths, t = 1..Len(LnMilli)
LnMilli == <<0, 693, 1099, 1386, 1609, 1792, 1946, 2079, 2197, 2303,
             2398, 2485, 2565, 2639, 2708, 2773, 2833, 2890, 2944, 2996>>

ISqrt(x) == CHOOSE r \in 0..200 : r * r <= x /\ (r + 1) * (r + 1) > x

INF == 1000000000

\* sorted(..., key=value, reverse=True): descending, stable
InsertDesc(sorted, x, value) ==
    LET k == Cardinality({i \in 1..Len(sorted) : value[sorted[i]] >= value[x]})
    IN SubSeq(sorted, 1, k) \o <<x>> \o SubSeq(sorted, k + 1, Len(sorted))

RECURSIVE SortDesc(_, _)
SortDesc(s, value) ==
    IF s = <<>> THEN <<>>
    ELSE InsertDesc(SortDesc(SubSeq(s, 1, Len(s) - 1), value), s[Len(s)], value)

\* The UCB score of one action: Q + 2*sqrt(ln(total)/visits), unvisited = inf
ucb_score(action, state_key, q, history) ==
    LET visits == Cardinality({i \in 1..Len(history) :
                                  history[i].state = state_key
                                  /\ history[i].action = action})
    IN IF visits = 0 THEN INF
       ELSE Get(q, <<state_key, action>>, 0)
            + 10 * (2 * ISqrt((LnMilli[Len(history)] * 10) \div visits))

\* _ucb_selection scoring the actions the table knows for the state instead of
\* the available ones
ucb_selection_known(available_actions, state_key, q, history) ==
    IF Len(history) = 0 THEN NoAction
    ELSE LET known == {k[2] : k \in {kk \in DOMAIN q : kk[1] = state_key}}
         IN IF known = {} THEN available_actions[1]
            ELSE CHOOSE a \in known :
                    \A b \in known : ucb_score(a, state_key, q, history)
                                        >= ucb_score(b, state_key, q, history)

\* ActionSelector._ucb_selection: the first action of the highest score
ucb_selection(available_actions, state_key, q, history) ==
    IF Len(history) = 0 THEN NoAction
    ELSE LET score == [a \in Range(available_actions) |->
                          ucb_score(a, state_key, q, history)]
         IN SortDesc(available_actions, score)[1]

\* ActionSelector._exploration_strategy: the actions it can return
exploration_strategy(available_actions, state_key, q, current_metrics, history) ==
    LET ucb == ucb_selection(available_actions, state_key, q, history)
        min_count == SetMin({action_count(history, a) : a \in Range(available_actions)})
        least_tried_actions ==
            {a \in Range(available_actions) : action_count(history, a) = min_count}
        safe_least_tried ==
            {a \in least_tried_actions : is_safe_to_explore(a, current_metrics)}
        safe_actions ==
            {a \in Range(available_actions) : is_safe_to_explore(a, current_metrics)}
    IN IF Len(history) > UCB_MIN_HISTORY /\ ucb # NoAction
          /\ is_safe_to_explore(ucb, current_metrics)
       THEN {ucb}
       ELSE IF safe_least_tried # {} THEN safe_least_tried
       ELSE IF least_tried_actions # {} THEN least_tried_actions
       ELSE IF safe_actions # {} THEN safe_actions
       ELSE Range(available_actions)

\* an exploitation that returns the first action of the highest Q-value
exploitation_strategy_greedy(state_key, q, available_actions, history) ==
    LET qv == [a \in Range(available_actions) |-> Get(q, <<state_key, a>>, 0)]
    IN {SortDesc(available_actions, qv)[1]}

\* ActionSelector._exploitation_strategy: the actions it can return
exploitation_strategy(state_key, q, available_actions, history) ==
    LET qv == [a \in Range(available_actions) |-> Get(q, <<state_key, a>>, 0)]
        action_q_values == SortDesc(available_actions, qv)
        max_q_value == qv[action_q_values[1]]
        tolerance == Max2(TOLERANCE_FLOOR, (Abs(max_q_value) * TOLERANCE_PCT) \div 100)
        tied(a) == Abs(qv[a] - max_q_value) <= tolerance
        within == SelectSeq(action_q_values, tied)
        recent10 == LastN(ActionsOf(history), 10)
        best_actions ==
            IF Len(within) = 1 /\ Len(recent10) >= 5 /\ Count(recent10, within[1]) >= 4
            THEN SubSeq(action_q_values, 1, Min2(3, Len(action_q_values)))
            ELSE within
        recent15 == LastN(ActionsOf(history), 15)
        min_usage == SetMin({Count(recent15, a) : a \in Range(best_actions)})
    IN IF Len(best_actions) = 1 THEN {best_actions[1]}
       ELSE {a \in Range(best_actions) : Count(recent15, a) = min_usage}

\* ActionSelector.select_action on a non-empty action list: the (action, branch)
\* pairs it can return.  random.random() lies in [0, 1): exploration needs
\* adaptive epsilon > 0, exploitation needs it < 1.
select_action_outcomes(state_key, q, available_actions, epsilon, episode, current_metrics, history, benchmark_mode) ==
    LET adaptive_epsilon ==
            calculate_adaptive_epsilon(epsilon, episode, history, benchmark_mode)
        explore == IF adaptive_epsilon > 0
                   THEN {[action |-> a, selection_type |-> "exploration"] :
                            a \in exploration_strategy(available_actions, state_key, q,
                                                       current_metrics, history)}
                   ELSE {}
        exploit == IF adaptive_epsilon < 10000
                   THEN {[action |-> a, selection_type |-> "exploitation"] :
                            a \in exploitation_strategy(state_key, q, available_actions,
                                                        history)}
                   ELSE {}
    IN explore \cup exploit

----------------------------------------------------------------------------
(* StateEncoder (cpu/state_encoder.py), before fit *)

\* min(cap, int(value / width)), bucket 0 for an absent value
Bucket(value, width, cap) == IF value = NONE THEN 0 ELSE Min2(cap, value \div width)

\* StateEncoder._fast_encode_state
fast_encode_state(m) ==
    <<Bucket(m.cpu_usage_percent, 25, 4),
      Bucket(m.jvm_memory_usage_percent, 25, 4),
      Bucket(m.avg_response_time_ms, 100, 4),
      Bucket(m.error_rate_percent, 5, 2),
      Bucket(m.request_rate_per_second, 50, 4)>>

\* StateEncoder.encode_state of an unfitted encoder: the first record decides.
\* The sample metrics of this model have pairwise distinct state-cache keys,
\* so a cached state equals the freshly encoded one.
encode_state(service_metrics) ==
    IF service_metrics = <<>> THEN <<0, 0, 0, 0, 0>>
    ELSE fast_encode_state(service_metrics[1])

----------------------------------------------------------------------------
(* StateEncoder with its discretizers and its state cache *)

\* the order of _fast_encode_state
FastNames ==
    <<"cpu_usage_percent", "jvm_memory_usage_percent", "avg_response_time_ms",
      "error_rate_percent", "request_rate_per_second">>

\* sorted(self.metric_bins.keys()), the order of _discretize_metrics
MetricNames ==
    <<"avg_response_time_ms", "cpu_usage_percent", "error_rate_percent",
      "jvm_memory_usage_percent", "request_rate_per_second">>

metric_bins ==
    [cpu_usage_percent |-> cpu_bins, jvm_memory_usage_percent |-> memory_bins,
     avg_response_time_ms |-> latency_bins, error_rate_percent |-> error_rate_bins,
     request_rate_per_second |-> throughput_bins]

\* sorted(values)
RECURSIVE SortAsc(_)
SortAsc(s) ==
    IF s = <<>> THEN <<>>
    ELSE LET rest == SortAsc(Tail(s))
             k == Cardinality({i \in 1..Len(rest) : rest[i] <= Head(s)})
         IN SubSeq(rest, 1, k) \o <<Head(s)>> \o SubSeq(rest, k + 1, Len(rest))

\* KBinsDiscretizer(strategy="quantile").fit: the inner bin edges, each times
\* n_bins: np.percentile of the samples at j / n_bins with linear
\* interpolation, edges that repeat their predecessor removed
quantile_edges(values, n_bins) ==
    LET x == SortAsc(values)
        n == Len(x)
        edge(j) == LET f == (j * (n - 1)) \div n_bins
                       r == (j * (n - 1)) % n_bins
                   IN n_bins * x[f + 1] + (IF r = 0 THEN 0 ELSE r * (x[f + 2] - x[f + 1]))
        all == [j \in 1..(n_bins + 1) |-> edge(j - 1)]
        kept == SelectSeq([j \in 1..(n_bins + 1) |-> <<j, all[j]>>],
                          LAMBDA e : e[1] = 1 \/ all[e[1]] > all[e[1] - 1])
    IN [j \in 1..(Len(kept) - 2) |-> kept[j + 1][2]]

\* a KBinsDiscretizer: not fitted, or fitted with its inner edges (times scale)
Discretizer(fitted, scale, edges) == [fitted |-> fitted, scale |-> scale, edges |-> edges]

\* KBinsDiscretizer.transform([[value]])[0][0]: the inner edges at or below value
transform(d, value) ==
    Cardinality({j \in 1..Len(d.edges) : d.edges[j] <= d.scale * value})

\* StateEncoder.__init__
NewEncoder ==
    [is_fitted |-> FALSE,
     discretizers |-> [name \in Range(MetricNames) |-> Discretizer(FALSE, 1, <<>>)],
     state_cache |-> <<>>]

\* StateEncoder.fit(historical_metrics)
fit(encoder, historical_metrics) ==
    LET values(name) ==
            LET present == SelectSeq(historical_metrics, LAMBDA m : m[name] # NONE)
            IN [i \in 1..Len(present) |-> present[i][name]]
        num_unique(name) == Cardinality(Range(values(name)))
        n_bins(name) == Min2(metric_bins[name], num_unique(name))
    IN [encoder EXCEPT
           !.is_fitted = TRUE,
           !.discretizers =
               [name \in Range(MetricNames) |->
                   IF num_unique(name) >= 2
                   THEN Discretizer(TRUE, n_bins(name),
                                    quantile_edges(values(name), n_bins(name)))
                   ELSE encoder.discretizers[name]]]

\* StateEncoder._discretize_metrics
discretize_metrics(encoder, m) ==
    [i \in 1..Len(MetricNames) |->
        LET name == MetricNames[i]
        IN IF m[name] # NONE /\ encoder.discretizers[name].fitted
           THEN transform(encoder.discretizers[name], m[name])
           ELSE metric_bins[name] \div 2]

\* StateEncoder._get_metrics_cache_key: the rounded cpu, response time and
\* request rate of the first record, NONE for an absent value
get_metrics_cache_key(metrics) ==
    IF metrics = <<>> THEN <<>>
    ELSE LET m == metrics[1]
             part(v, step) == IF v = NONE THEN NONE ELSE (v \div step) * step
         IN <<part(m.cpu_usage_percent, 5), part(m.avg_response_time_ms, 50),
              part(m.request_rate_per_second, 10)>>

\* the metric each position of a freshly encoded state stands for: the order
\* in which _fast_encode_state, before fit, and _discretize_metrics, after
\* fit, append their bins; the default state stands for no metric
layout(encoder, service_metrics) ==
    IF service_metrics = <<>> THEN <<>>
    ELSE IF ~encoder.is_fitted THEN FastNames
    ELSE MetricNames

\* encode_state past its cache
encode_state_fresh(encoder, service_metrics) ==
    IF service_metrics = <<>> THEN <<0, 0, 0, 0, 0>>
    ELSE IF ~encoder.is_fitted THEN fast_encode_state(service_metrics[1])
    ELSE discretize_metrics(encoder, service_metrics[1])

\* StateEncoder.encode_state(service_metrics) at time t: the state returned
\* and the encoder after the call
StateEncoder_encode_state(encoder, service_metrics, t) ==
    LET cache_key == get_metrics_cache_key(service_metrics)
        hit == /\ cache_key \in DOMAIN encoder.state_cache
               /\ (t - encoder.state_cache[cache_key].time) * TickSeconds
                      < STATE_CACHE_TTL
        encoded_state == encode_state_fresh(encoder, service_metrics)
    IN IF hit
       THEN [state |-> encoder.state_cache[cache_key].value, encoder |-> encoder]
       ELSE [state |-> encoded_state,
             encoder |-> [encoder EXCEPT !.state_cache =
                             Put(encoder.state_cache, cache_key,
                                 Entry(encoded_state, t))]]

----------------------------------------------------------------------------
(* ModelPersistence (utils/persistence.py) and the model directory *)

\* model_to_save of QLearningAgent.save_model
Snapshot(table, encoder, episodes) ==
    [q_table |-> table, state_encoder |-> encoder, episode_count |-> episodes]

\* a file: a pickled snapshot, bytes that do not unpickle, or a file whose
\* writing stopped part-way
File(kind, data) == [kind |-> kind, data |-> data]

NoFiles == [model |-> <<>>, backups |-> <<>>, temps |-> <<>>]

NotSaving ==
    [stage |-> "idle", result |-> "none", snapshot |-> Snapshot(<<>>, NewEncoder, 0),
     agent |-> Snapshot(<<>>, NewEncoder, 0), previous |-> <<>>]

\* ModelPersistence.load_model(file_path) with _try_load_from_backup: the
\* object returned, or nothing.  A backup that fails to unpickle sends
\* load_model to backups/backups, which does not exist.
ModelPersistence_load_model(disk) ==
    IF disk.model = <<>> THEN <<>>
    ELSE IF disk.model[1].kind = "snapshot" THEN <<disk.model[1].data>>
    ELSE IF disk.backups = <<>> THEN <<>>
    ELSE IF disk.backups[1].kind = "snapshot" THEN <<disk.backups[1].data>>
    ELSE <<>>

\* _create_backup and _cleanup_old_backups: the copy first, the newest
\* backup_count files kept
create_backup(backups, copy) == SubSeq(<<copy>> \o backups, 1, Min2(backup_count, Len(backups) + 1))

----------------------------------------------------------------------------
(* QLearningAgent (cpu/q_learning_agent.py) *)

\* QLearningAgent._get_possible_actions_for_state
get_possible_actions_for_state(q, state) ==
    {k[2] : k \in {kk \in DOMAIN q : kk[1] = state}}

\* q_table is a defaultdict(float): reading q_table[key] creates key with 0.0
ReadCreates(q, key) == IF key \in DOMAIN q THEN q ELSE Put(q, key, 0)

\* the update with a learning rate that falls with the updates already made
update_q_value_annealed(q, state, action, reward, next_state) ==
    LET q1 == ReadCreates(q, <<state, action>>)
        current_q == q1[<<state, action>>]
        next_state_q_values ==
            {q1[<<next_state, a>>] : a \in get_possible_actions_for_state(q1, next_state)}
        max_next_q == IF next_state_q_values = {} THEN 0 ELSE SetMax(next_state_q_values)
        td_target == reward + (discount_factor_pct * max_next_q) \div 100
        td_error == td_target - current_q
        new_q == current_q + (learning_rate_pct * td_error) \div (100 * (op_count + 1))
    IN Put(q1, <<state, action>>, new_q)

\* QLearningAgent._update_q_value: the table after the update
update_q_value(q, state, action, reward, next_state) ==
    LET q1 == ReadCreates(q, <<state, action>>)
        current_q == q1[<<state, action>>]
        next_state_q_values ==
            {q1[<<next_state, a>>] : a \in get_possible_actions_for_state(q1, next_state)}
        max_next_q == IF next_state_q_values = {} THEN 0 ELSE SetMax(next_state_q_values)
        td_target == reward + (discount_factor_pct * max_next_q) \div 100
        td_error == td_target - current_q
        new_q == current_q + (learning_rate_pct * td_error) \div 100
    IN Put(q1, <<state, action>>, new_q)

\* ActionSelector.get_available_actions on the dictionaries the load balancer
\* returns: the instance name, skipping a record that has neither name nor url
get_available_actions(instances) ==
    SelectSeq(instances, LAMBDA i : i # ANON)

\* RewardCalculator.calculate_reward: -10.0 without metrics, otherwise a
\* weighted sum of tanh terms of the collected metrics, one of RewardSamples here
RewardSamples == {-500, 800}
calculate_reward_outcomes(current_metrics) ==
    IF current_metrics = <<>> THEN {-NO_METRICS_PENALTY} ELSE RewardSamples

----------------------------------------------------------------------------
(* RewardCalculator (cpu/reward_calculator.py), computed, in thousandths *)

RECURSIVE SeqSum(_)
SeqSum(s) == IF s = <<>> THEN 0 ELSE s[1] + SeqSum(Tail(s))

SeqMax(s) == SetMax(Range(s))

\* [m.field for m in metrics if m.field is not None]
Values(metrics, field) ==
    SelectSeq([i \in 1..Len(metrics) |-> metrics[i][field]], LAMBDA v : v # NONE)

\* np.mean, in thousandths
Mean1000(s) == (SeqSum(s) * 1000) \div Len(s)

\* np.var (population variance), in thousandths
Var1000(s) ==
    LET n == Len(s)
        squares == SeqSum([i \in 1..n |-> s[i] * s[i]])
    IN ((n * squares - SeqSum(s) * SeqSum(s)) * 1000) \div (n * n)

\* np.tanh of x thousandths, in thousandths: the Pade approximant
\* x(27 + x^2)/(27 + 9x^2), which reaches 1 at 3, saturated beyond
Tanh1000(x) ==
    IF x >= 3000 THEN 1000
    ELSE IF x <= -3000 THEN -1000
    ELSE LET c == IF x >= 0 THEN x \div 10 ELSE -((-x) \div 10)
         IN (10 * c * (270000 + c * c)) \div (270000 + 9 * c * c)

\* ln(y / 1000) for y >= 1000, in thousandths: halving to [1, 2), then
\* 2t + 2t^3/3 with t = (z - 1)/(z + 1)
RECURSIVE Ln1000(_)
Ln1000(y) ==
    IF y >= 2000 THEN 693 + Ln1000(y \div 2)
    ELSE LET t == ((y - 1000) * 1000) \div (y + 1000)
         IN 2 * t + (2 * t * t * t) \div 3000000

\* np.log1p of x thousandths, x >= 0
Log1p1000(x) == Ln1000(1000 + x)

\* (previous - current) / previous of two means, in thousandths
Improvement1000(previous, current) == ((previous - current) * 1000) \div previous

\* max(0, 1 - std/mean) of a list with a positive mean, in thousandths
consistency_bonus(s) ==
    LET n == Len(s)
        squares == SeqSum([i \in 1..n |-> s[i] * s[i]])
        total == SeqSum(s)
        cv2 == ((n * squares - total * total) * 1000) \div (total * total)
    IN IF cv2 >= 1000 THEN 0
       ELSE 1000 - (CHOOSE r \in 0..1000 :
                       r * r <= cv2 * 1000 /\ (r + 1) * (r + 1) > cv2 * 1000)

\* RewardCalculator._calculate_latency_reward
calculate_latency_reward(current_metrics, previous_metrics) ==
    LET latencies == Values(current_metrics, "avg_response_time_ms")
        prev == Values(previous_metrics, "avg_response_time_ms")
    IN IF latencies = <<>> THEN 0
       ELSE LET normalized_avg == Mean1000(latencies) \div response_time_threshold_ms
                normalized_max ==
                    (SeqMax(latencies) * 1000) \div response_time_threshold_ms
            IN - normalized_avg - normalized_max \div 2
               - (IF SeqMax(latencies) > response_time_threshold_ms
                  THEN 2 * (normalized_max - 1000) ELSE 0)
               + (IF prev # <<>> /\ SeqSum(prev) > 0
                  THEN Improvement1000(Mean1000(prev), Mean1000(latencies)) \div 2
                  ELSE 0)

\* RewardCalculator._calculate_error_reward
calculate_error_reward(current_metrics, previous_metrics) ==
    LET errors == Values(current_metrics, "error_rate_percent")
        prev == Values(previous_metrics, "error_rate_percent")
    IN IF errors = <<>> THEN 0
       ELSE LET avg_error_rate == Mean1000(errors) \div 100
                max_error_rate == SeqMax(errors) * 10
            IN - 10 * avg_error_rate - 20 * max_error_rate
               - (IF max_error_rate > error_rate_threshold_pm
                  THEN 50 * (max_error_rate - error_rate_threshold_pm) ELSE 0)
               + (IF prev # <<>> /\ SeqSum(prev) > 0
                  THEN 2 * Improvement1000(Mean1000(prev), Mean1000(errors))
                  ELSE 0)

\* RewardCalculator._calculate_throughput_reward
calculate_throughput_reward(current_metrics, previous_metrics) ==
    LET throughput == Values(current_metrics, "request_rate_per_second")
        prev == Values(previous_metrics, "request_rate_per_second")
    IN IF throughput = <<>> THEN 0
       ELSE Log1p1000(SeqSum(throughput) * 1000)
            + Log1p1000(Mean1000(throughput)) \div 2
            + (IF Len(throughput) > 1 /\ SeqSum(throughput) > 0
               THEN consistency_bonus(throughput) ELSE 0)
            + (IF prev # <<>> /\ SeqSum(prev) > 0
               THEN ((SeqSum(throughput) - SeqSum(prev)) * 1000) \div SeqSum(prev)
               ELSE 0)

\* variance over mean of a list, in thousandths (0 for an all-zero list)
VarianceOverMean1000(s) ==
    IF Mean1000(s) \div 10 = 0 THEN 0
    ELSE (Var1000(s) * 100) \div (Mean1000(s) \div 10)

\* RewardCalculator._calculate_balance_reward
calculate_balance_reward(current_metrics) ==
    IF Len(current_metrics) < 2 THEN 0
    ELSE LET cpu == Values(current_metrics, "cpu_usage_percent")
             mem == Values(current_metrics, "jvm_memory_usage_percent")
             rates == Values(current_metrics, "request_rate_per_second")
         IN (IF Len(cpu) > 1
             THEN - VarianceOverMean1000(cpu) \div 100
                  + (Cardinality({i \in 1..Len(cpu) : 30 <= cpu[i] /\ cpu[i] <= 70})
                        * 1000) \div Len(cpu)
             ELSE 0)
            - (IF Len(mem) > 1 THEN VarianceOverMean1000(mem) \div 100 ELSE 0)
            - (IF Len(rates) > 1 /\ SeqSum(rates) > 0
               THEN VarianceOverMean1000(rates) \div 10 ELSE 0)

\* RewardCalculator._calculate_metric_volatility
calculate_metric_volatility(current, previous) ==
    (IF current.cpu_usage_percent # NONE /\ previous.cpu_usage_percent # NONE
     THEN Abs(current.cpu_usage_percent - previous.cpu_usage_percent) * 10 ELSE 0)
    + (IF current.avg_response_time_ms # NONE /\ previous.avg_response_time_ms # NONE
       THEN (Abs(current.avg_response_time_ms - previous.avg_response_time_ms) * 1000)
               \div response_time_threshold_ms
       ELSE 0)

\* RewardCalculator._calculate_stability_reward
calculate_stability_reward(current_metrics, previous_metrics) ==
    IF previous_metrics = <<>> THEN 0
    ELSE LET current_services == {current_metrics[i].instance_id :
                                     i \in 1..Len(current_metrics)}
             previous_services == {previous_metrics[i].instance_id :
                                      i \in 1..Len(previous_metrics)}
             volatility ==
                 [i \in 1..Len(current_metrics) |->
                     LET same == {j \in 1..Len(previous_metrics) :
                                     previous_metrics[j].instance_id
                                        = current_metrics[i].instance_id}
                     IN IF same = {} THEN 0
                        ELSE calculate_metric_volatility(
                                 current_metrics[i], previous_metrics[SetMin(same)])]
         IN - 5000 * Cardinality(previous_services \ current_services)
            + 100 * Cardinality(current_services \cap previous_services)
            - SeqSum(volatility)

\* RewardCalculator._calculate_normalized_reward on the five components
calculate_normalized_reward(current_metrics, previous_metrics) ==
    (latency_weight_pct
        * Tanh1000(-calculate_latency_reward(current_metrics, previous_metrics))
     + error_rate_weight_pct
        * Tanh1000(-calculate_error_reward(current_metrics, previous_metrics))
     + throughput_weight_pct
        * Tanh1000(calculate_throughput_reward(current_metrics, previous_metrics))
     + utilization_balance_weight_pct
        * Tanh1000(calculate_balance_reward(current_metrics))
     + stability_weight_pct
        * Tanh1000(calculate_stability_reward(current_metrics, previous_metrics)))
    \div (latency_weight_pct + error_rate_weight_pct + throughput_weight_pct
            + utilization_balance_weight_pct + stability_weight_pct)

\* the reward left as the aggregate, whatever the action
apply_action_modifiers_none(base_reward, action, current_metrics) == base_reward

\* RewardCalculator._apply_action_modifiers: the first record of the action
apply_action_modifiers(base_reward, action, current_metrics) ==
    LET idx == {i \in 1..Len(current_metrics) :
                   current_metrics[i].instance_id = action}
    IN IF idx = {} THEN base_reward
       ELSE LET target_service == current_metrics[SetMin(idx)]
                cpu_usage == target_service.cpu_usage_percent
                error_rate == target_service.error_rate_percent
                response_time == target_service.avg_response_time_ms
            IN base_reward
               + (IF cpu_usage = NONE \/ cpu_usage = 0 THEN 0
                  ELSE IF cpu_usage > 60 THEN -(cpu_usage - 60) * 100
                  ELSE IF cpu_usage < 30 THEN (30 - cpu_usage) * 50 ELSE 0)
               - (IF error_rate # NONE /\ error_rate > 5 THEN 3000 ELSE 0)
               - (IF response_time # NONE /\ response_time > 50
                  THEN (response_time - 50) * 20 ELSE 0)

\* RewardCalculator.calculate_reward
calculate_reward(current_metrics, previous_metrics, action_taken) ==
    IF current_metrics = <<>> THEN -NO_METRICS_PENALTY
    ELSE apply_action_modifiers(
             calculate_normalized_reward(current_metrics, previous_metrics),
             action_taken, current_metrics)

----------------------------------------------------------------------------
(* CircuitBreaker (rl_decision_api.py) *)

\* CircuitBreaker.call opening one failure late (> for >=)
CircuitBreaker_call_late(b, t, func_raises) ==
    LET cooled == (t - b.last_failure_time) * TickSeconds > recovery_timeout
        entered == IF b.state = "OPEN" /\ cooled
                   THEN [b EXCEPT !.state = "HALF_OPEN"] ELSE b
    IN IF b.state = "OPEN" /\ ~cooled
       THEN [cb |-> b, invoked |-> FALSE, raised |-> TRUE]
       ELSE IF ~func_raises
       THEN [cb |-> IF entered.state = "HALF_OPEN"
                    THEN [entered EXCEPT !.state = "CLOSED", !.failure_count = 0]
                    ELSE entered,
             invoked |-> TRUE, raised |-> FALSE]
       ELSE [cb |-> [state |-> IF entered.failure_count + 1 > failure_threshold
                               THEN "OPEN" ELSE entered.state,
                     failure_count |-> entered.failure_count + 1,
                     last_failure_time |-> t],
             invoked |-> TRUE, raised |-> TRUE]

\* CircuitBreaker.call whose failed trial leaves last_failure_time alone
CircuitBreaker_call_stale(b, t, func_raises) ==
    LET cooled == (t - b.last_failure_time) * TickSeconds > recovery_timeout
        entered == IF b.state = "OPEN" /\ cooled
                   THEN [b EXCEPT !.state = "HALF_OPEN"] ELSE b
    IN IF b.state = "OPEN" /\ ~cooled
       THEN [cb |-> b, invoked |-> FALSE, raised |-> TRUE]
       ELSE IF ~func_raises
       THEN [cb |-> IF entered.state = "HALF_OPEN"
                    THEN [entered EXCEPT !.state = "CLOSED", !.failure_count = 0]
                    ELSE entered,
             invoked |-> TRUE, raised |-> FALSE]
       ELSE [cb |-> [state |-> IF entered.failure_count + 1 >= failure_threshold
                               THEN "OPEN" ELSE entered.state,
                     failure_count |-> entered.failure_count + 1,
                     last_failure_time |-> IF entered.state = "HALF_OPEN"
                                           THEN b.last_failure_time ELSE t],
             invoked |-> TRUE, raised |-> TRUE]

\* CircuitBreaker.call at time t of a function that raises iff func_raises:
\* the breaker afterwards, whether func was invoked, whether the call raised
CircuitBreaker_call(b, t, func_raises) ==
    LET cooled == (t - b.last_failure_time) * TickSeconds > recovery_timeout
        entered == IF b.state = "OPEN" /\ cooled
                   THEN [b EXCEPT !.state = "HALF_OPEN"] ELSE b
    IN IF b.state = "OPEN" /\ ~cooled
       THEN [cb |-> b, invoked |-> FALSE, raised |-> TRUE]
       ELSE IF ~func_raises
       THEN [cb |-> IF entered.state = "HALF_OPEN"
                    THEN [entered EXCEPT !.state = "CLOSED", !.failure_count = 0]
                    ELSE entered,
             invoked |-> TRUE, raised |-> FALSE]
       ELSE [cb |-> [state |-> IF entered.failure_count + 1 >= failure_threshold
                               THEN "OPEN" ELSE entered.state,
                     failure_count |-> entered.failure_count + 1,
                     last_failure_time |-> t],
             invoked |-> TRUE, raised |-> TRUE]

----------------------------------------------------------------------------
(* DecisionService (rl_decision_api.py): helpers *)

\* str.startswith on character sequences
StartsWith(str, prefix) ==
    Len(prefix) <= Len(str) /\ SubSeq(str, 1, Len(prefix)) = prefix

\* f"{service_name}:{selected_pod}:{int(current_time * 1000)}"
decision_context_key(service_name, selected_pod, t) ==
    service_name \o <<":", selected_pod, ":", t>>

\* get_cache_key: the metrics hash is not part of the key
get_cache_key(service_name, instance_count, counter) ==
    <<service_name, instance_count,
      IF instance_count > 0 THEN counter % (ROTATION_INTERVAL * instance_count) ELSE 0>>

\* the pods with the fewest entries in recent_selections
least_used_pods(recent_selections, available_pods) ==
    LET min_count == SetMin({Count(recent_selections, p) : p \in Range(available_pods)})
    IN {p \in Range(available_pods) : Count(recent_selections, p) = min_count}

\* the override tracking the selections without ever redirecting one
apply_load_balancing_override_tracking(tracker, selected_pod, available_pods) ==
    IF Len(available_pods) <= 1
    THEN {[pod |-> selected_pod, tracker |-> tracker]}
    ELSE {[pod |-> selected_pod, tracker |-> Append(LastN(tracker, 9), selected_pod)]}

\* the override answering without tracking the selection
apply_load_balancing_override_untracked(tracker, selected_pod, available_pods) ==
    {[pod |-> selected_pod, tracker |-> tracker]}

\* apply_load_balancing_override: the (pod, tracker) results it can give
apply_load_balancing_override(tracker, selected_pod, available_pods) ==
    IF Len(available_pods) <= 1
    THEN {[pod |-> selected_pod, tracker |-> tracker]}
    ELSE LET recent_selections == LastN(tracker, 9)
             least == least_used_pods(recent_selections, available_pods)
             pods == IF Len(recent_selections) >= 6
                        /\ Count(recent_selections, selected_pod) >= 8
                        /\ selected_pod \notin least
                     THEN least ELSE {selected_pod}
         IN {[pod |-> p, tracker |-> Append(recent_selections, p)] : p \in pods}

\* the fallback answering with the most recently tracked pod, available or not
fallback_pods_tracked(tracker, available_pods) ==
    IF tracker # <<>> THEN {tracker[Len(tracker)]}
    ELSE Range(available_pods)

\* the fallback answering with the first instance of the list
fallback_pods_first(tracker, available_pods) == {available_pods[1]}

\* the fallback of decide_routing when the breaker call raised
fallback_pods(tracker, available_pods) ==
    IF Len(available_pods) > 1
    THEN IF tracker # <<>> THEN least_used_pods(tracker, available_pods)
         ELSE Range(available_pods)
    ELSE {available_pods[1]}

\* decision_context_cache[key] = context: a dict keeps the place of a key it has
StoreContext(contexts, ctx) ==
    IF \E i \in 1..Len(contexts) : contexts[i].key = ctx.key
    THEN [i \in 1..Len(contexts) |->
             IF contexts[i].key = ctx.key THEN ctx ELSE contexts[i]]
    ELSE Append(contexts, ctx)

\* a lookup that forgets the del
RemoveAt_kept(s, i) == s

\* del on the i-th entry of a dict kept in insertion order
RemoveAt(s, i) == SubSeq(s, 1, i - 1) \o SubSeq(s, i + 1, Len(s))

\* calculate_pod_specific_reward, in thousandths
calculate_pod_specific_reward(response_time_ms, status_code, error_occurred, selected_pod, current_metrics) ==
    LET time_reward == IF response_time_ms <= 50 THEN 1000
                       ELSE IF response_time_ms <= 100 THEN 800
                       ELSE IF response_time_ms <= 200 THEN 500
                       ELSE IF response_time_ms <= 500 THEN 200
                       ELSE -500
        status_reward == IF 200 <= status_code /\ status_code < 300 THEN 500
                         ELSE IF 300 <= status_code /\ status_code < 400 THEN 200
                         ELSE IF 400 <= status_code /\ status_code < 500 THEN -300
                         ELSE -800
        idx == {i \in 1..Len(current_metrics) :
                   current_metrics[i].instance_id = selected_pod}
        cpu == IF idx = {} THEN NONE ELSE current_metrics[SetMin(idx)].cpu_usage_percent
        mem == IF idx = {} THEN NONE
               ELSE current_metrics[SetMin(idx)].jvm_memory_usage_percent
        cpu_bonus == IF cpu = NONE THEN 0
                     ELSE IF cpu < 30 THEN 150
                     ELSE IF cpu > 90 THEN -400
                     ELSE IF cpu > 70 THEN -200 ELSE 0
        mem_bonus == IF mem = NONE THEN 0
                     ELSE IF mem < 70 THEN 100
                     ELSE IF mem > 90 THEN -200 ELSE 0
    IN (time_reward * 5) \div 10 + (status_reward * 3) \div 10
       - (IF error_occurred THEN 500 ELSE 0) + cpu_bonus + mem_bonus

(* The collaborators *)

CoolMetric(id) == Metric(id, 20, 50, 30, 0, 10)
HotMetric(id) == Metric(id, 97, 50, 400, 0, 10)

\* What the collaborators can answer in one specification:
\*   discovery  the instance lists lb_client.get_registered_services() resolves
\*   hot        the sets of hot instances prometheus can report
\*   nodata     whether prometheus can come back without any record
\*   faults     whether rl_agent.select_action can raise (TRUE) or return (FALSE)
\*   requests   the number of /decide calls that resolve an instance and of
\*              /feedback calls
\*   ticks      the times, in ticks, at which requests can arrive after time 0
\*   log        whether the run keeps the decisions /decide returned
\*   lb_faults  whether the request to the load balancer can fail (TRUE) or
\*              answer (FALSE)
\*   computed   whether the reward of an update is computed from the metrics
\*              (TRUE) or is one of RewardSamples (FALSE)
Env(discovery, hot, nodata, faults, requests, ticks, log, lb_faults, computed) ==
    [discovery |-> discovery, hot |-> hot, nodata |-> nodata, faults |-> faults,
     requests |-> requests, ticks |-> ticks, log |-> log, lb_faults |-> lb_faults,
     computed |-> computed]

\* what prometheus_client.get_service_metrics(instances) can return: nothing,
\* or one record per instance
MetricsOutcomes(instances, env) ==
    (IF env.nodata \/ instances = <<>> THEN {<<>>} ELSE {}) \cup
    (IF instances = <<>> THEN {}
     ELSE {[i \in 1..Len(instances) |->
               IF instances[i] \in hot THEN HotMetric(instances[i])
               ELSE CoolMetric(instances[i])] : hot \in env.hot})

----------------------------------------------------------------------------
(* DecisionService: the handlers *)

Balanced(decision_type) ==
    CASE decision_type = "exploration" -> "exploration_balanced"
      [] decision_type = "exploitation" -> "exploitation_balanced"
      [] OTHER -> "fallback_intelligent_balanced"

\* QLearningAgent.select_action(current_metrics, available_instances): the
\* (action, branch) pairs the selector can return for this call.  The agent
\* hands the selector no current_metrics.
agent_select_action(current_metrics, available_instances) ==
    select_action_outcomes(encode_state(current_metrics), q_table,
                           get_available_actions(available_instances),
                           current_epsilon, episode_count, <<>>,
                           action_history, rl_settings.benchmark_mode)

agentVars == <<q_table, current_state, previous_state, last_action,
               current_epsilon, episode_count, action_history>>

\* decide_routing, step 3 on a key the decision cache holds (whatever its age)
DecideCached(service_name, available_pods, service_metrics, cache_key, discovery) ==
    LET cached_decision == decision_cache[cache_key].value
        tracker == Get(load_balancing_tracker, service_name, <<>>)
    IN \E ov \in apply_load_balancing_override(tracker, cached_decision.selected_pod,
                                              available_pods) :
          /\ load_balancing_tracker' =
                IF Len(available_pods) <= 1 THEN load_balancing_tracker
                ELSE Put(load_balancing_tracker, service_name, ov.tracker)
          /\ last' = [op |-> "decide", outcome |-> "decision", status |-> 200,
                      service |-> service_name, instances |-> available_pods,
                      metrics |-> service_metrics, selected_pod |-> ov.pod,
                      decision_type |->
                          IF ov.pod # cached_decision.selected_pod
                          THEN Balanced(cached_decision.decision_type)
                          ELSE cached_decision.decision_type,
                      via |-> "cache", branch |-> "none", invoked |-> FALSE,
                      chosen |-> cached_decision.selected_pod,
                      breaker_before |-> cb, time |-> now,
                      cached_at |-> decision_cache[cache_key].time,
                      discovery |-> discovery]
          /\ UNCHANGED <<now, decision_cache, decision_context_cache, cb, call_log,
                         op_count, agentVars>>

\* decide_routing, steps 4 to the end: the breaker call, the fallback, the
\* override, the decision context and the decision cache
DecideFresh(service_name, instances, available_pods, service_metrics, cache_key, fault, discovery) ==
    LET state_key == encode_state(service_metrics)
        r == CircuitBreaker_call(cb, now,
                                 fault \/ get_available_actions(instances) = <<>>)
        tracker == Get(load_balancing_tracker, service_name, <<>>)
        choices ==
            IF ~r.raised
            THEN {[pod |-> o.action, branch |-> o.selection_type, agent |-> TRUE] :
                     o \in agent_select_action(service_metrics, instances)}
            ELSE {[pod |-> p, branch |-> "none", agent |-> FALSE] :
                     p \in fallback_pods(tracker, available_pods)}
    IN /\ cb' = r.cb
       /\ call_log' = IF r.invoked THEN Append(call_log, ~r.raised) ELSE call_log
       /\ \E c \in choices :
            \E ov \in apply_load_balancing_override(tracker, c.pod, available_pods) :
               LET selected_pod == ov.pod
                   decision_type ==
                       IF c.agent
                       THEN IF current_epsilon > 1000 THEN "exploration"
                            ELSE "exploitation"
                       ELSE "fallback_intelligent"
                   \* rl_agent.current_state after select_action, then after the
                   \* first-use initialisation of step 5
                   after_select == IF c.agent THEN state_key ELSE current_state
                   state_now == IF after_select = NoState
                                THEN encode_state(service_metrics) ELSE after_select
                   encoded == encode_state(service_metrics)
                   ctx == [key |-> decision_context_key(service_name, selected_pod, now),
                           previous_state |-> state_now,
                           current_state |-> encoded,
                           last_action |-> selected_pod,
                           service_metrics |-> service_metrics,
                           timestamp |-> now]
                   response == [selected_pod |-> selected_pod,
                                decision_type |-> decision_type,
                                state_encoded |-> encoded,
                                available_pods |-> available_pods]
               IN /\ load_balancing_tracker' =
                        IF Len(available_pods) <= 1 THEN load_balancing_tracker
                        ELSE Put(load_balancing_tracker, service_name, ov.tracker)
                  /\ decision_context_cache' = StoreContext(decision_context_cache, ctx)
                  /\ previous_state' = state_now
                  /\ current_state' = encoded
                  /\ last_action' = selected_pod
                  /\ action_history' =
                        IF c.agent
                        THEN Append(action_history, HistoryEntry(state_key, c.pod))
                        ELSE action_history
                  /\ decision_cache' = Put(decision_cache, cache_key, Entry(response, now))
                  /\ last' = [op |-> "decide", outcome |-> "decision", status |-> 200,
                              service |-> service_name, instances |-> available_pods,
                              metrics |-> service_metrics, selected_pod |-> selected_pod,
                              decision_type |-> decision_type,
                              via |-> IF c.agent THEN "agent" ELSE "fallback",
                              branch |-> c.branch, invoked |-> r.invoked,
                              chosen |-> c.pod,
                              breaker_before |-> cb, time |-> now,
                              cached_at |-> now, discovery |-> discovery]
       /\ UNCHANGED <<now, q_table, current_epsilon, episode_count, op_count>>

\* decide_routing, step 1: the instances of the service, from the discovery
\* cache while it is fresh, else from lb_client.get_registered_services():
\* SERVICE_CACHE while it is not expired, else the load balancer's answer reg,
\* cached, or [] when the request fails; with the two caches afterwards
resolve_instances(service_name, reg, lb_fault) ==
    LET sd_hit == /\ service_name \in DOMAIN service_discovery_cache
                  /\ (now - service_discovery_cache[service_name].time)
                         * TickSeconds * 1000 < CACHE_TTL_SERVICES_MS
        lb_hit == /\ ALL_SERVICES \in DOMAIN SERVICE_CACHE
                  /\ ~((now - SERVICE_CACHE[ALL_SERVICES].time) * TickSeconds
                          > SERVICE_CACHE_TTL)
        services == IF lb_hit THEN SERVICE_CACHE[ALL_SERVICES].value
                    ELSE IF lb_fault THEN <<>> ELSE reg
    IN [sd_hit |-> sd_hit,
        lb_hit |-> lb_hit,
        discovery |-> IF sd_hit THEN "cached"
                      ELSE IF lb_hit THEN "lb_cache"
                      ELSE IF lb_fault THEN "failed" ELSE "fetched",
        instances |-> IF sd_hit THEN service_discovery_cache[service_name].value
                      ELSE services,
        service_discovery_cache |->
            IF sd_hit THEN service_discovery_cache
            ELSE Put(service_discovery_cache, service_name, Entry(services, now)),
        SERVICE_CACHE |->
            IF sd_hit \/ lb_hit THEN SERVICE_CACHE
            ELSE IF lb_fault THEN <<>>
            ELSE Put(SERVICE_CACHE, ALL_SERVICES, Entry(reg, now))]

\* the answer of decide_routing when step 1 resolves no instance:
\* HTTPException(404), caught by the handler's except Exception
NoInstancesFound(service_name, discovery) ==
    [op |-> "decide", outcome |-> "error", status |-> 500,
     service |-> service_name, instances |-> <<>>,
     metrics |-> <<>>, selected_pod |-> NoAction,
     decision_type |-> "none", via |-> "none",
     branch |-> "none", invoked |-> FALSE,
     breaker_before |-> cb, time |-> now, cached_at |-> now,
     discovery |-> discovery]

\* decide_routing, step 2.1: the metrics of the instances, from the metrics
\* cache while it is fresh, else what prometheus returned, cached
resolve_metrics(service_name, instances, fetched) ==
    LET metrics_key == <<service_name, Len(instances)>>
        metrics_hit == /\ metrics_key \in DOMAIN metrics_cache
                       /\ (now - metrics_cache[metrics_key].time)
                              * TickSeconds * 1000 < METRICS_TTL
    IN [hit |-> metrics_hit,
        service_metrics |-> IF metrics_hit THEN metrics_cache[metrics_key].value
                            ELSE fetched,
        metrics_cache |-> IF metrics_hit THEN metrics_cache
                          ELSE Put(metrics_cache, metrics_key, Entry(fetched, now))]

\* decide_routing, steps 2.5 to the end, on the instances and metrics resolved
DecideRest(service_name, env, instances, service_metrics, fault, discovery) ==
    LET n == Len(instances)
        counter == Get(cache_rotation_counter, service_name, 0)
        cache_key == get_cache_key(service_name, n, counter)
    IN /\ cache_rotation_counter' =
             Put(cache_rotation_counter, service_name, counter + 1)
       /\ IF cache_key \in DOMAIN decision_cache
          THEN DecideCached(service_name, instances, service_metrics, cache_key,
                            discovery)
          ELSE DecideFresh(service_name, instances, instances, service_metrics,
                           cache_key, fault, discovery)
       /\ decision_log' =
             IF env.log
             THEN LastN(Append(decision_log,
                               [selected_pod |-> last'.selected_pod,
                                instances |-> n]), WINDOW)
             ELSE decision_log

\* POST /decide (decide_routing)
Decide(service_name, env) ==
    /\ Get(cache_rotation_counter, service_name, 0) + op_count < env.requests
    /\ UNCHANGED <<storeVars, rl_settings, workerVars>>
    /\ \E reg \in env.discovery, lb_fault \in env.lb_faults, fault \in env.faults :
         LET d == resolve_instances(service_name, reg, lb_fault)
         IN /\ service_discovery_cache' = d.service_discovery_cache
            /\ SERVICE_CACHE' = d.SERVICE_CACHE
            /\ IF d.instances = <<>>
               THEN /\ last' = NoInstancesFound(service_name, d.discovery)
                    /\ UNCHANGED <<now, metrics_cache, decision_cache,
                                   cache_rotation_counter, load_balancing_tracker,
                                   decision_context_cache, cb, call_log,
                                   decision_log, op_count, agentVars>>
               ELSE \E fetched \in MetricsOutcomes(d.instances, env) :
                      LET m == resolve_metrics(service_name, d.instances, fetched)
                      IN /\ metrics_cache' = m.metrics_cache
                         /\ DecideRest(service_name, env, d.instances,
                                       m.service_metrics, fault, d.discovery)

FeedbackSamples ==
    {[response_time_ms |-> 30, status_code |-> 200, error_occurred |-> FALSE],
     [response_time_ms |-> 600, status_code |-> 500, error_occurred |-> TRUE]}

\* the rewards update_q_table can apply in provide_feedback: the calculator's
\* for the metrics collected, the metrics of the decision context (of
\* rl_agent.previous_metrics without one: those an earlier /feedback
\* collected, current_metrics before the first) and the action of the update
applied_rewards(selected_pod, service_name, current_metrics, env) ==
    IF ~env.computed THEN calculate_reward_outcomes(current_metrics)
    ELSE LET matching == {i \in 1..Len(decision_context_cache) :
                            /\ decision_context_cache[i].last_action = selected_pod
                            /\ StartsWith(decision_context_cache[i].key, service_name)
                            /\ (now - decision_context_cache[i].timestamp) * TickSeconds
                                   < DECISION_CONTEXT_WINDOW}
             found == matching # {}
             decision_context == decision_context_cache[SetMin(matching)]
             act == IF found THEN decision_context.last_action ELSE last_action
             previous ==
                 IF found THEN {decision_context.service_metrics}
                 ELSE {current_metrics} \cup
                      UNION {MetricsOutcomes(reg, env) : reg \in env.discovery}
         IN {calculate_reward(current_metrics, previous_metrics, act) :
                previous_metrics \in previous}

\* POST /feedback (provide_feedback)
Feedback(service_name, selected_pod, env) ==
    /\ Get(cache_rotation_counter, service_name, 0) + op_count < env.requests
    /\ op_count' = op_count + 1
    /\ \E request \in FeedbackSamples, reg \in env.discovery :
       \E current_metrics \in MetricsOutcomes(reg, env) :
       \E reward \in applied_rewards(selected_pod, service_name, current_metrics, env) :
         LET matching == {i \in 1..Len(decision_context_cache) :
                            /\ decision_context_cache[i].last_action = selected_pod
                            /\ StartsWith(decision_context_cache[i].key, service_name)
                            /\ (now - decision_context_cache[i].timestamp) * TickSeconds
                                   < DECISION_CONTEXT_WINDOW}
             found == matching # {}
             at == SetMin(matching)
             decision_context == decision_context_cache[at]
             prev == IF found THEN decision_context.previous_state ELSE previous_state
             cur == IF found THEN decision_context.current_state ELSE current_state
             act == IF found THEN decision_context.last_action ELSE last_action
             has_state_info == prev # NoState /\ act # NoAction /\ cur # NoState
             returned == calculate_pod_specific_reward(
                             request.response_time_ms, request.status_code,
                             request.error_occurred, selected_pod, current_metrics)
         IN /\ decision_context_cache' =
                  IF found THEN RemoveAt(decision_context_cache, at)
                  ELSE decision_context_cache
            /\ q_table' =
                  IF has_state_info
                  THEN update_q_value(q_table, prev, act, reward,
                                      encode_state(current_metrics))
                  ELSE q_table
            /\ last' = [op |-> "feedback", service |-> service_name,
                        selected_pod |-> selected_pod, found |-> found,
                        context |-> IF found THEN decision_context ELSE [key |-> <<>>],
                        updated |-> has_state_info,
                        state |-> prev, action |-> act, applied |-> reward,
                        next_state |-> encode_state(current_metrics),
                        reward |-> returned,
                        status |-> IF has_state_info
                                   THEN "feedback_processed_and_learned"
                                   ELSE "feedback_received_no_update",
                        q_before |-> q_table, contexts_before |-> decision_context_cache,
                        time |-> now]
    /\ UNCHANGED <<now, service_discovery_cache, SERVICE_CACHE, metrics_cache, decision_cache,
                   cache_rotation_counter, load_balancing_tracker, cb,
                   current_state, previous_state, last_action, current_epsilon,
                   episode_count, action_history, call_log, decision_log, storeVars, rl_settings, workerVars>>

\* time passes
Tick(env) ==
    /\ \E t \in env.ticks : t > now /\ now' = t
    /\ last' = [op |-> "tick"]
    /\ UNCHANGED <<service_discovery_cache, SERVICE_CACHE, metrics_cache, decision_cache,
                   cache_rotation_counter, load_balancing_tracker,
                   decision_context_cache, cb, call_log, decision_log, storeVars,
                   rl_settings, workerVars, op_count, agentVars>>

Pods == {"pA", "pB"}

Init ==
    /\ now = 0
    /\ service_discovery_cache = <<>>
    /\ SERVICE_CACHE = <<>>
    /\ metrics_cache = <<>>
    /\ decision_cache = <<>>
    /\ cache_rotation_counter = <<>>
    /\ load_balancing_tracker = <<>>
    /\ decision_context_cache = <<>>
    /\ cb = [state |-> "CLOSED", failure_count |-> 0, last_failure_time |-> NONE]
    /\ q_table = <<>>
    /\ current_state = NoState
    /\ previous_state = NoState
    /\ last_action = NoAction
    /\ current_epsilon = epsilon_start
    /\ episode_count = 0
    /\ action_history = <<>>
    /\ call_log = <<>>
    /\ decision_log = <<>>
    /\ state_encoder = NewEncoder
    /\ files = NoFiles
    /\ saving = NotSaving
    /\ rl_settings = RLAgentSettings
    /\ workers = NoWorkers
    /\ cache_lock = NONE
    /\ feedback_log = <<>>
    /\ op_count = 0
    /\ last = [op |-> "none"]

\* The decision path: discovery with and without instances, metrics with and
\* without data, an agent that can raise
DecideEnv == Env({<<>>, <<"pA">>, <<"pA", "pB">>}, {{"pB"}}, TRUE, BOOLEAN, MaxRequests, {MaxTime}, FALSE, {FALSE}, FALSE)

Next ==
    \/ Decide(SERVICE, DecideEnv)
    \/ Tick(DecideEnv)

Spec == Init /\ [][Next]_vars

\* The breaker: two instances, an agent that can raise, seven requests, so
\* that the rotating decision-cache key comes back to a cached one
BreakerEnv == Env({<<"pA", "pB">>}, {{}}, FALSE, BOOLEAN, MaxBreakerRequests, 1..MaxBreakerTime, FALSE, {FALSE}, FALSE)

NextBreaker ==
    \/ Decide(SERVICE, BreakerEnv)
    \/ Tick(BreakerEnv)

SpecBreaker == Init /\ [][NextBreaker]_vars

\* Decisions and their feedback
FeedbackEnv == Env({<<"pA", "pB">>}, {{"pB"}}, TRUE, BOOLEAN, MaxFeedbackRequests, 1..MaxFeedbackTime, FALSE, {FALSE}, FALSE)

NextFeedback ==
    \/ Decide(SERVICE, FeedbackEnv)
    \/ \E pod \in Pods : Feedback(SERVICE, pod, FeedbackEnv)
    \/ Tick(FeedbackEnv)

SpecFeedback == Init /\ [][NextFeedback]_vars

----------------------------------------------------------------------------
(* ActionSelector.select_action on its own: any history, table and arguments *)

S0 == <<0, 2, 0, 0, 0>>     \* encode_state of a cool first record
S1 == <<3, 2, 4, 0, 0>>     \* encode_state of a hot first record

Actions == {"pA", "pB", "pC"}

RECURSIVE Rep(_, _)
Rep(x, n) == IF n = 0 THEN <<>> ELSE <<x>> \o Rep(x, n - 1)

\* action histories: nothing, a short run or a run past the UCB threshold of
\* one entry, followed by at most one other entry
SelectorHistories ==
    {prefix \o tail :
        prefix \in {<<>>} \cup {Rep(HistoryEntry(S0, a), n) :
                                   a \in {"pA", "pB"}, n \in {4, UCB_MIN_HISTORY + 1}},
        tail \in {<<>>} \cup {<<HistoryEntry(s, a)>> : s \in {S0, S1}, a \in Actions}}

SelectorTables ==
    {<<>>,
     (<<S0, "pA">> :> 1000) @@ (<<S0, "pB">> :> 900) @@ (<<S0, "pC">> :> -500),
     (<<S0, "pA">> :> 3000) @@ (<<S0, "pB">> :> -2000)}

SelectorActionLists ==
    {<<>>, <<"pA">>, <<"pA", "pB">>, <<"pC", "pB", "pA">>}

\* safety metrics: none, one instance over a threshold, every instance over a
\* threshold, a record without values next to one over the error threshold
SelectorMetrics ==
    {<<>>,
     <<CoolMetric("pA"), HotMetric("pB"), CoolMetric("pC")>>,
     <<HotMetric("pA"), Metric("pB", 20, 96, 30, 0, 10), Metric("pC", 20, 50, 30, 11, 10)>>,
     <<Metric("pA", NONE, NONE, NONE, NONE, NONE), Metric("pC", 20, 50, 30, 11, 10)>>}

\* (epsilon, config.benchmark_mode): never explore more than the floor, always
\* explore, the production epsilon
SelectorEpsilons == {<<0, FALSE>>, <<10000, FALSE>>, <<10000, TRUE>>}

InitSelector ==
    /\ now = 0
    /\ service_discovery_cache = <<>>
    /\ SERVICE_CACHE = <<>>
    /\ metrics_cache = <<>>
    /\ decision_cache = <<>>
    /\ cache_rotation_counter = <<>>
    /\ load_balancing_tracker = <<>>
    /\ decision_context_cache = <<>>
    /\ cb = [state |-> "CLOSED", failure_count |-> 0, last_failure_time |-> NONE]
    /\ q_table \in SelectorTables
    /\ current_state = NoState
    /\ previous_state = NoState
    /\ last_action = NoAction
    /\ current_epsilon = epsilon_start
    /\ episode_count = 0
    /\ action_history \in SelectorHistories
    /\ call_log = <<>>
    /\ decision_log = <<>>
    /\ state_encoder = NewEncoder
    /\ files = NoFiles
    /\ saving = NotSaving
    /\ rl_settings = RLAgentSettings
    /\ workers = NoWorkers
    /\ cache_lock = NONE
    /\ feedback_log = <<>>
    /\ op_count = 0
    /\ last = [op |-> "none"]

\* ActionSelector.select_action(state_key, q_table, available_actions, epsilon,
\* episode, current_metrics)
SelectAction ==
    /\ op_count < MaxSelections
    /\ op_count' = op_count + 1
    /\ \E state_key \in {S0, S1}, available_actions \in SelectorActionLists,
          eps \in SelectorEpsilons,
          current_metrics \in SelectorMetrics :
         IF available_actions = <<>>
         THEN \* raise ValueError("No available actions for selection")
              /\ action_history' = action_history
              /\ last' = [op |-> "select", raised |-> TRUE, action |-> NoAction,
                          selection_type |-> "none", state_key |-> state_key,
                          available_actions |-> available_actions,
                          current_metrics |-> current_metrics,
                          history_before |-> action_history]
         ELSE \E o \in select_action_outcomes(state_key, q_table, available_actions,
                                              eps[1], episode_count, current_metrics,
                                              action_history, eps[2]) :
                /\ action_history' =
                      Append(action_history, HistoryEntry(state_key, o.action))
                /\ last' = [op |-> "select", raised |-> FALSE, action |-> o.action,
                            selection_type |-> o.selection_type,
                            state_key |-> state_key,
                            available_actions |-> available_actions,
                            current_metrics |-> current_metrics,
                            history_before |-> action_history]
    /\ UNCHANGED <<now, service_discovery_cache, SERVICE_CACHE, metrics_cache, decision_cache,
                   cache_rotation_counter, load_balancing_tracker,
                   decision_context_cache, cb, q_table, current_state,
                   previous_state, last_action, current_epsilon, episode_count,
                   call_log, decision_log, storeVars, rl_settings, workerVars>>

NextSelector == SelectAction

SpecSelector == InitSelector /\ [][NextSelector]_vars

----------------------------------------------------------------------------
(* Long runs of /decide on a service that scales between one and two
   instances, with the decisions kept *)

BalanceEnv == Env({<<"pA">>, <<"pA", "pB">>}, {{}}, FALSE, BOOLEAN, MaxBalanceRequests, {MaxBalanceTime}, TRUE, {FALSE}, FALSE)

NextBalance ==
    \/ Decide(SERVICE, BalanceEnv)
    \/ Tick(BalanceEnv)

SpecBalance == Init /\ [][NextBalance]_vars

----------------------------------------------------------------------------
(* /decide against a load balancer whose requests can fail *)

DiscoveryEnv == Env({<<"pA">>, <<"pA", "pB">>}, {{}}, FALSE, {FALSE}, MaxDiscoveryRequests, 1..MaxDiscoveryTime, FALSE, BOOLEAN, FALSE)

NextDiscovery ==
    \/ Decide(SERVICE, DiscoveryEnv)
    \/ Tick(DiscoveryEnv)

SpecDiscovery == Init /\ [][NextDiscovery]_vars

----------------------------------------------------------------------------
(* QLearningAgent.select_action on its own *)

\* the agent fields select_action reads and writes
AgentFields ==
    [q_table |-> q_table, current_state |-> current_state,
     previous_state |-> previous_state, last_action |-> last_action,
     action_history |-> action_history]

\* select_action returning NoAction on an empty list instead of raising
QLearningAgent_select_action_silent(agent, current_metrics, available_instances) ==
    LET state_key == encode_state(current_metrics)
        available_actions == get_available_actions(available_instances)
        picks == IF available_actions = <<>> THEN {NoAction}
                 ELSE {o.action : o \in agent_select_action(current_metrics,
                                                            available_instances)}
    IN {[raised |-> FALSE, action |-> a,
         agent |-> [agent EXCEPT !.previous_state = agent.current_state,
                                 !.current_state = state_key,
                                 !.last_action = a]] : a \in picks}

\* QLearningAgent.select_action(current_metrics, available_instances): the
\* results it can give, each with the agent fields after the call
QLearningAgent_select_action(agent, current_metrics, available_instances) ==
    LET state_key == encode_state(current_metrics)
        available_actions == get_available_actions(available_instances)
    IN IF available_actions = <<>>
       THEN \* raise ValueError("No available actions for selection")
            {[raised |-> TRUE, action |-> NoAction, agent |-> agent]}
       ELSE {[raised |-> FALSE, action |-> o.action,
              agent |-> [agent EXCEPT
                            !.previous_state = agent.current_state,
                            !.current_state = state_key,
                            !.last_action = o.action,
                            !.action_history =
                                Append(agent.action_history,
                                       HistoryEntry(state_key, o.action))]] :
                o \in select_action_outcomes(state_key, agent.q_table,
                                             available_actions, current_epsilon,
                                             episode_count, <<>>,
                                             agent.action_history,
                                             rl_settings.benchmark_mode)}

AgentInstanceLists == {<<>>, <<ANON>>, <<"pA">>, <<"pA", "pB">>}

AgentMetrics == {<<>>, <<CoolMetric("pA"), HotMetric("pB")>>, <<HotMetric("pA")>>}

AgentSelectAction ==
    /\ op_count < MaxAgentSteps
    /\ op_count' = op_count + 1
    /\ \E current_metrics \in AgentMetrics, available_instances \in AgentInstanceLists :
       \E r \in QLearningAgent_select_action(AgentFields, current_metrics,
                                             available_instances) :
         /\ q_table' = r.agent.q_table
         /\ current_state' = r.agent.current_state
         /\ previous_state' = r.agent.previous_state
         /\ last_action' = r.agent.last_action
         /\ action_history' = r.agent.action_history
         /\ last' = [op |-> "agent_select", raised |-> r.raised, action |-> r.action,
                     available_actions |-> get_available_actions(available_instances),
                     agent_before |-> AgentFields]
    /\ UNCHANGED <<now, service_discovery_cache, SERVICE_CACHE, metrics_cache,
                   decision_cache, cache_rotation_counter, load_balancing_tracker,
                   decision_context_cache, cb, current_epsilon, episode_count,
                   call_log, decision_log, storeVars, rl_settings, workerVars>>

\* a table entry learned between two selections
AgentLearns ==
    /\ op_count < MaxAgentSteps
    /\ op_count' = op_count + 1
    /\ current_state # NoState /\ last_action # NoAction
    /\ \E reward \in RewardSamples :
         /\ q_table' = update_q_value(q_table, current_state, last_action, reward,
                                      current_state)
         /\ last' = [op |-> "update", state |-> current_state, action |-> last_action,
                     reward |-> reward, next_state |-> current_state,
                     q_before |-> q_table]
    /\ UNCHANGED <<now, service_discovery_cache, SERVICE_CACHE, metrics_cache,
                   decision_cache, cache_rotation_counter, load_balancing_tracker,
                   decision_context_cache, cb, current_state, previous_state,
                   last_action, current_epsilon, episode_count, action_history,
                   call_log, decision_log, storeVars, rl_settings, workerVars>>

NextAgent ==
    \/ AgentSelectAction
    \/ AgentLearns

SpecAgent == Init /\ [][NextAgent]_vars

----------------------------------------------------------------------------
(* QLearningAgent.save_model and load_model over a model directory *)

\* a save that leaves the encoder out
model_to_save_bare(table, encoder, episodes) == Snapshot(table, NewEncoder, episodes)

\* model_to_save: what QLearningAgent.save_model hands to the persistence
model_to_save(table, encoder, episodes) == Snapshot(table, encoder, episodes)

FitHistories ==
    {<<CoolMetric("pA"), HotMetric("pB")>>,
     <<CoolMetric("pA"), Metric("pB", 60, 80, 120, 2, 10), HotMetric("pC")>>}

\* the agents a run starts from: a new one, and one trained and fitted before
StoreAgents ==
    {Snapshot(<<>>, NewEncoder, 0),
     Snapshot((<<S0, "pA">> :> 1000) @@ (<<S1, "pB">> :> -500),
              fit(NewEncoder, <<CoolMetric("pA"), HotMetric("pB")>>), 7)}

OldSnapshot == Snapshot((<<S0, "pB">> :> 300), NewEncoder, 3)
OlderSnapshot == Snapshot(<<>>, NewEncoder, 1)
Junk == File("corrupt", Snapshot(<<>>, NewEncoder, 0))

\* the model directories a run starts from: empty, a saved model with its
\* backup, and damaged model files with no, a good, a damaged newest backup
StoreDisks ==
    {NoFiles,
     [model |-> <<File("snapshot", OldSnapshot)>>,
      backups |-> <<File("snapshot", OldSnapshot)>>, temps |-> <<>>],
     [model |-> <<Junk>>, backups |-> <<>>, temps |-> <<>>],
     [model |-> <<Junk>>, backups |-> <<File("snapshot", OldSnapshot)>>, temps |-> <<>>],
     [model |-> <<Junk>>,
      backups |-> <<Junk, File("snapshot", OldSnapshot), File("snapshot", OlderSnapshot)>>,
      temps |-> <<>>]}

InitStore ==
    /\ now = 0
    /\ service_discovery_cache = <<>>
    /\ SERVICE_CACHE = <<>>
    /\ metrics_cache = <<>>
    /\ decision_cache = <<>>
    /\ cache_rotation_counter = <<>>
    /\ load_balancing_tracker = <<>>
    /\ decision_context_cache = <<>>
    /\ cb = [state |-> "CLOSED", failure_count |-> 0, last_failure_time |-> NONE]
    /\ \E agent \in StoreAgents :
         /\ q_table = agent.q_table
         /\ state_encoder = agent.state_encoder
         /\ episode_count = agent.episode_count
    /\ current_state = NoState
    /\ previous_state = NoState
    /\ last_action = NoAction
    /\ current_epsilon = epsilon_start
    /\ action_history = <<>>
    /\ call_log = <<>>
    /\ decision_log = <<>>
    /\ files \in StoreDisks
    /\ saving = NotSaving
    /\ rl_settings = RLAgentSettings
    /\ workers = NoWorkers
    /\ cache_lock = NONE
    /\ feedback_log = <<>>
    /\ op_count = 0
    /\ last = [op |-> "none"]

serviceVars ==
    <<now, service_discovery_cache, SERVICE_CACHE, metrics_cache, decision_cache,
      cache_rotation_counter, load_balancing_tracker, decision_context_cache, cb,
      call_log, decision_log>>

\* save_model, up to the temporary file: QLearningAgent.save_model builds
\* model_to_save, ModelPersistence.save_model makes the directory and opens a
\* NamedTemporaryFile in it
SaveBegin ==
    /\ saving.stage = "idle"
    /\ op_count < MaxStoreSteps
    /\ op_count' = op_count + 1
    /\ \E fails \in BOOLEAN :
         LET snapshot == model_to_save(q_table, state_encoder, episode_count)
         IN /\ saving' = [stage |-> IF fails THEN "idle" ELSE "temp",
                          result |-> IF fails THEN "failed" ELSE "none",
                          snapshot |-> snapshot,
                          agent |-> Snapshot(q_table, state_encoder, episode_count),
                          previous |-> files.model]
            /\ files' = IF fails THEN files
                        ELSE [files EXCEPT !.temps = Append(@, File("partial", snapshot))]
            /\ last' = [op |-> "save", step |-> "open", failed |-> fails]
    /\ UNCHANGED <<serviceVars, rl_settings, workerVars, agentVars, state_encoder>>

\* pickle.dump(model_to_save, temp_file), then temp_path = temp_file.name.  When
\* the dump raises, temp_path is not bound and the handler removes nothing.
SaveDump ==
    /\ saving.stage = "temp"
    /\ \E fails \in BOOLEAN :
         /\ saving' = [saving EXCEPT !.stage = IF fails THEN "idle" ELSE "dumped",
                                     !.result = IF fails THEN "failed" ELSE "none"]
         /\ files' = IF fails THEN files
                     ELSE [files EXCEPT !.temps[Len(files.temps)] =
                                           File("snapshot", saving.snapshot)]
         /\ last' = [op |-> "save", step |-> "dump", failed |-> fails]
    /\ UNCHANGED <<serviceVars, rl_settings, workerVars, agentVars, state_encoder, op_count>>

\* shutil.move(temp_path, file_path), a rename inside one directory; when it
\* raises, the handler unlinks the temporary file
SaveMove ==
    /\ saving.stage = "dumped"
    /\ \E fails \in BOOLEAN :
         LET temp == files.temps[Len(files.temps)]
             others == SubSeq(files.temps, 1, Len(files.temps) - 1)
         IN /\ saving' = [saving EXCEPT !.stage = IF fails THEN "idle" ELSE "moved",
                                        !.result = IF fails THEN "failed" ELSE "none"]
            /\ files' = IF fails THEN [files EXCEPT !.temps = others]
                        ELSE [files EXCEPT !.temps = others, !.model = <<temp>>]
            /\ last' = [op |-> "save", step |-> "move", failed |-> fails]
    /\ UNCHANGED <<serviceVars, rl_settings, workerVars, agentVars, state_encoder, op_count>>

\* _create_backup, which keeps its errors to itself: the copy is made, is not
\* made, or stops part-way
SaveBackup ==
    /\ saving.stage = "moved"
    /\ \E copy \in {"copied", "none", "partial"} :
         /\ saving' = [saving EXCEPT !.stage = "idle", !.result = "saved"]
         /\ files' =
               IF copy = "none" THEN files
               ELSE [files EXCEPT !.backups =
                        create_backup(@, IF copy = "copied" THEN files.model[1]
                                         ELSE File("partial", saving.snapshot))]
         /\ last' = [op |-> "save", step |-> "backup", failed |-> copy # "copied"]
    /\ UNCHANGED <<serviceVars, rl_settings, workerVars, agentVars, state_encoder, op_count>>

\* QLearningAgent.load_model()
Load ==
    /\ op_count < MaxStoreSteps
    /\ op_count' = op_count + 1
    /\ LET loaded_data == ModelPersistence_load_model(files)
           found == loaded_data # <<>>
       IN /\ q_table' = IF found THEN loaded_data[1].q_table ELSE q_table
          /\ state_encoder' = IF found THEN loaded_data[1].state_encoder
                              ELSE state_encoder
          /\ episode_count' = IF found THEN loaded_data[1].episode_count
                              ELSE episode_count
          /\ last' = [op |-> "load", found |-> found, loaded_data |-> loaded_data,
                      agent_before |-> Snapshot(q_table, state_encoder, episode_count),
                      disk |-> files, saving |-> saving]
    /\ UNCHANGED <<serviceVars, rl_settings, workerVars, files, saving, current_state, previous_state,
                   last_action, current_epsilon, action_history>>

\* QLearningAgent.reset()
Reset ==
    /\ op_count < MaxStoreSteps
    /\ op_count' = op_count + 1
    /\ q_table' = <<>>
    /\ current_epsilon' = rl_settings.epsilon_start
    /\ episode_count' = 0
    /\ action_history' = <<>>
    /\ last' = [op |-> "reset"]
    /\ UNCHANGED <<serviceVars, storeVars, rl_settings, workerVars, current_state, previous_state, last_action>>

\* the layouts of the states the encoder of this run has encoded so far
Layouts == IF "layouts" \in DOMAIN last THEN last.layouts ELSE {}

\* StateEncoder.fit(historical_metrics), in runs of at most calls calls
Fit(calls) ==
    /\ op_count < calls
    /\ op_count' = op_count + 1
    /\ \E historical_metrics \in FitHistories :
         /\ state_encoder' = fit(state_encoder, historical_metrics)
         /\ last' = [op |-> "fit", history |-> historical_metrics, layouts |-> Layouts]
    /\ UNCHANGED <<serviceVars, rl_settings, workerVars, agentVars, files, saving>>

NextStore ==
    \/ SaveBegin
    \/ SaveDump
    \/ SaveMove
    \/ SaveBackup
    \/ Load
    \/ Reset
    \/ Fit(MaxStoreSteps)

SpecStore == InitStore /\ [][NextStore]_vars

----------------------------------------------------------------------------
(* StateEncoder.encode_state and fit on their own *)

\* snapshots: a cool record, the same with more memory in use (same cache
\* key), records with every value and with the memory value absent, no record,
\* a hot record
EncoderMetrics ==
    {<<CoolMetric("pA")>>,
     <<Metric("pA", 20, 80, 30, 0, 10)>>,
     <<Metric("pA", NONE, NONE, NONE, NONE, NONE)>>,
     <<Metric("pA", 20, NONE, 30, 0, 10), CoolMetric("pB")>>,
     <<>>,
     <<HotMetric("pA")>>}

\* the fit state of an encoder
FitState(encoder) == [is_fitted |-> encoder.is_fitted, discretizers |-> encoder.discretizers]

EncodeState ==
    /\ op_count < MaxEncoderCalls
    /\ op_count' = op_count + 1
    /\ \E service_metrics \in EncoderMetrics, t \in now..MaxEncoderTime :
         LET r == StateEncoder_encode_state(state_encoder, service_metrics, t)
         IN /\ now' = t
            /\ state_encoder' = r.encoder
            /\ last' = [op |-> "encode", metrics |-> service_metrics,
                        state |-> r.state, fit |-> FitState(state_encoder),
                        layouts |->
                            IF r.encoder = state_encoder
                               \/ layout(state_encoder, service_metrics) = <<>>
                            THEN Layouts
                            ELSE Layouts \cup {layout(state_encoder, service_metrics)},
                        previous |->
                            IF last.op = "encode"
                            THEN [valid |-> TRUE, metrics |-> last.metrics,
                                  state |-> last.state, fit |-> last.fit]
                            ELSE [valid |-> FALSE, metrics |-> <<>>, state |-> <<>>,
                                  fit |-> FitState(NewEncoder)]]
    /\ UNCHANGED <<service_discovery_cache, SERVICE_CACHE, metrics_cache,
                   decision_cache, cache_rotation_counter, load_balancing_tracker,
                   decision_context_cache, cb, call_log, decision_log, agentVars,
                   files, saving, rl_settings, workerVars>>

NextEncoder ==
    \/ EncodeState
    \/ Fit(MaxEncoderCalls)

SpecEncoder == Init /\ [][NextEncoder]_vars

----------------------------------------------------------------------------
(* Requests in flight: the handlers of /decide and /feedback step by step.
   uvicorn.run serves the app in one process on one event loop; both handlers
   are async functions whose bodies hold no await, and their collaborator
   calls are synchronous, so a handler that has started runs to its end
   before the loop starts another one. *)

\* the event loop can run a step of worker w: no other handler has started
\* and not returned
event_loop_runs_threads(ws, w) == TRUE

event_loop_runs(ws, w) ==
    \A v \in DOMAIN ws \ {w} : ws[v].pc \in {"idle", "pending"}

\* a step of a handler that is not its last
WorkerStep == [op |-> "worker"]

WorkersEnv == Env({<<"pA", "pB">>}, {{}}, FALSE, {FALSE}, MaxWorkerRequests, {}, FALSE, {FALSE}, FALSE)

\* a request arrives and waits for the event loop
Arrive(w) ==
    /\ workers[w].pc = "idle"
    /\ op_count < MaxWorkerRequests
    /\ op_count' = op_count + 1
    /\ \/ workers' = [workers EXCEPT ![w] = [pc |-> "pending", op |-> "decide"]]
       \/ \E pod \in Pods, request \in FeedbackSamples :
             workers' = [workers EXCEPT ![w] =
                            [pc |-> "pending", op |-> "feedback",
                             selected_pod |-> pod, request |-> request]]
    /\ last' = WorkerStep
    /\ UNCHANGED <<serviceVars, storeVars, rl_settings, agentVars, cache_lock,
                   feedback_log>>

\* decide_routing from its start into step 1: with cache_lock: the discovery
\* cache answers, or the handler calls lb_client.get_registered_services()
\* inside the with block
WDecideStart(w) ==
    /\ workers[w].pc = "pending" /\ workers[w].op = "decide"
    /\ event_loop_runs(workers, w)
    /\ cache_lock = NONE
    /\ LET d == resolve_instances(SERVICE, <<>>, FALSE)
       IN IF d.sd_hit
          THEN /\ cache_lock' = NONE
               /\ IF d.instances = <<>>
                  THEN /\ last' = NoInstancesFound(SERVICE, d.discovery)
                       /\ workers' = [workers EXCEPT ![w] = Idle]
                  ELSE /\ last' = WorkerStep
                       /\ workers' = [workers EXCEPT ![w] =
                                         [pc |-> "resolved", op |-> "decide",
                                          instances |-> d.instances,
                                          discovery |-> d.discovery]]
          ELSE /\ cache_lock' = w
               /\ last' = WorkerStep
               /\ workers' = [workers EXCEPT ![w] =
                                 [pc |-> "discovery_call", op |-> "decide"]]
    /\ UNCHANGED <<serviceVars, storeVars, rl_settings, agentVars, feedback_log,
                   op_count>>

\* get_registered_services() returns, the discovery cache is written, the
\* with block ends; no instance is the 404
WDiscoveryReturn(w, env) ==
    /\ workers[w].pc = "discovery_call"
    /\ event_loop_runs(workers, w)
    /\ \E reg \in env.discovery, lb_fault \in env.lb_faults :
         LET d == resolve_instances(SERVICE, reg, lb_fault)
         IN /\ service_discovery_cache' = d.service_discovery_cache
            /\ SERVICE_CACHE' = d.SERVICE_CACHE
            /\ cache_lock' = NONE
            /\ IF d.instances = <<>>
               THEN /\ last' = NoInstancesFound(SERVICE, d.discovery)
                    /\ workers' = [workers EXCEPT ![w] = Idle]
               ELSE /\ last' = WorkerStep
                    /\ workers' = [workers EXCEPT ![w] =
                                      [pc |-> "resolved", op |-> "decide",
                                       instances |-> d.instances,
                                       discovery |-> d.discovery]]
    /\ UNCHANGED <<now, metrics_cache, decision_cache, cache_rotation_counter,
                   load_balancing_tracker, decision_context_cache, cb, call_log,
                   decision_log, storeVars, rl_settings, agentVars, feedback_log,
                   op_count>>

\* step 2.1: with cache_lock: the metrics cache answers, or the handler calls
\* prometheus_client.get_service_metrics() inside the with block
WMetricsStart(w) ==
    /\ workers[w].pc = "resolved"
    /\ event_loop_runs(workers, w)
    /\ cache_lock = NONE
    /\ LET m == resolve_metrics(SERVICE, workers[w].instances, <<>>)
       IN IF m.hit
          THEN /\ cache_lock' = NONE
               /\ workers' = [workers EXCEPT ![w] =
                                 [pc |-> "measured", op |-> "decide",
                                  instances |-> workers[w].instances,
                                  discovery |-> workers[w].discovery,
                                  service_metrics |-> m.service_metrics]]
          ELSE /\ cache_lock' = w
               /\ workers' = [workers EXCEPT ![w].pc = "metrics_call"]
    /\ last' = WorkerStep
    /\ UNCHANGED <<serviceVars, storeVars, rl_settings, agentVars, feedback_log,
                   op_count>>

\* get_service_metrics() returns, the metrics cache is written, the with
\* block ends
WMetricsReturn(w, env) ==
    /\ workers[w].pc = "metrics_call"
    /\ event_loop_runs(workers, w)
    /\ \E fetched \in MetricsOutcomes(workers[w].instances, env) :
         LET m == resolve_metrics(SERVICE, workers[w].instances, fetched)
         IN /\ metrics_cache' = m.metrics_cache
            /\ workers' = [workers EXCEPT ![w] =
                              [pc |-> "measured", op |-> "decide",
                               instances |-> workers[w].instances,
                               discovery |-> workers[w].discovery,
                               service_metrics |-> m.service_metrics]]
    /\ cache_lock' = NONE
    /\ last' = WorkerStep
    /\ UNCHANGED <<now, service_discovery_cache, SERVICE_CACHE, decision_cache,
                   cache_rotation_counter, load_balancing_tracker,
                   decision_context_cache, cb, call_log, decision_log, storeVars,
                   rl_settings, agentVars, feedback_log, op_count>>

\* steps 2.5 to the end, all in memory
WDecideRest(w, env) ==
    /\ workers[w].pc = "measured"
    /\ event_loop_runs(workers, w)
    /\ cache_lock = NONE
    /\ \E fault \in env.faults :
         DecideRest(SERVICE, env, workers[w].instances, workers[w].service_metrics,
                    fault, workers[w].discovery)
    /\ workers' = [workers EXCEPT ![w] = Idle]
    /\ UNCHANGED <<service_discovery_cache, SERVICE_CACHE, metrics_cache, storeVars,
                   rl_settings, cache_lock, feedback_log>>

\* provide_feedback from its start to the call of update_q_table: the
\* collaborators, the decision context, the returned reward, and the agent's
\* previous_state, current_state and last_action set from the context with
\* the originals kept
WFeedbackStart(w, env) ==
    /\ workers[w].pc = "pending" /\ workers[w].op = "feedback"
    /\ event_loop_runs(workers, w)
    /\ \E reg \in env.discovery :
       \E current_metrics \in MetricsOutcomes(reg, env) :
         LET selected_pod == workers[w].selected_pod
             request == workers[w].request
             matching == {i \in 1..Len(decision_context_cache) :
                            /\ decision_context_cache[i].last_action = selected_pod
                            /\ StartsWith(decision_context_cache[i].key, SERVICE)
                            /\ (now - decision_context_cache[i].timestamp) * TickSeconds
                                   < DECISION_CONTEXT_WINDOW}
             found == matching # {}
             at == SetMin(matching)
             decision_context == decision_context_cache[at]
             prev == IF found THEN decision_context.previous_state ELSE previous_state
             cur == IF found THEN decision_context.current_state ELSE current_state
             act == IF found THEN decision_context.last_action ELSE last_action
             has_state_info == prev # NoState /\ act # NoAction /\ cur # NoState
             returned == calculate_pod_specific_reward(
                             request.response_time_ms, request.status_code,
                             request.error_occurred, selected_pod, current_metrics)
             answer == [op |-> "feedback", service |-> SERVICE,
                        selected_pod |-> selected_pod, found |-> found,
                        context |-> IF found THEN decision_context ELSE [key |-> <<>>],
                        updated |-> has_state_info,
                        state |-> prev, action |-> act, applied |-> 0,
                        next_state |-> encode_state(current_metrics),
                        reward |-> returned,
                        status |-> IF has_state_info
                                   THEN "feedback_processed_and_learned"
                                   ELSE "feedback_received_no_update",
                        q_before |-> q_table,
                        contexts_before |-> decision_context_cache,
                        time |-> now]
         IN /\ decision_context_cache' =
                  IF found THEN RemoveAt(decision_context_cache, at)
                  ELSE decision_context_cache
            /\ IF has_state_info
               THEN /\ previous_state' = prev
                    /\ current_state' = cur
                    /\ last_action' = act
                    /\ last' = WorkerStep
                    /\ workers' = [workers EXCEPT ![w] =
                                      [pc |-> "update", op |-> "feedback",
                                       answer |-> answer,
                                       current_metrics |-> current_metrics,
                                       original |-> [previous_state |-> previous_state,
                                                     current_state |-> current_state,
                                                     last_action |-> last_action],
                                       in_flight |->
                                           Cardinality({v \in DOMAIN workers \ {w} :
                                                           workers[v].pc # "idle"})]]
               ELSE /\ last' = answer
                    /\ workers' = [workers EXCEPT ![w] = Idle]
                    /\ UNCHANGED <<previous_state, current_state, last_action>>
    /\ UNCHANGED <<now, service_discovery_cache, SERVICE_CACHE, metrics_cache,
                   decision_cache, cache_rotation_counter, load_balancing_tracker,
                   cb, call_log, decision_log, storeVars, rl_settings, q_table,
                   current_epsilon, episode_count, action_history, cache_lock,
                   feedback_log, op_count>>

\* update_q_table up to the assignment of _update_q_value: the pair is the
\* agent's previous_state and last_action, the reward the calculator's, the
\* read of q_table[(state, action)] creates the entry
WFeedbackRead(w) ==
    /\ workers[w].pc = "update"
    /\ event_loop_runs(workers, w)
    /\ \E reward \in calculate_reward_outcomes(workers[w].current_metrics) :
         LET next_state == encode_state(workers[w].current_metrics)
             key == <<previous_state, last_action>>
             new_q == update_q_value(q_table, previous_state, last_action, reward,
                                     next_state)[key]
         IN /\ q_table' = ReadCreates(q_table, key)
            /\ feedback_log' =
                  Append(feedback_log,
                         [state |-> workers[w].answer.state,
                          action |-> workers[w].answer.action,
                          reward |-> reward, next_state |-> next_state,
                          in_flight |-> workers[w].in_flight])
            /\ workers' = [workers EXCEPT ![w] =
                              [pc |-> "write", op |-> "feedback",
                               answer |-> [workers[w].answer EXCEPT !.applied = reward],
                               original |-> workers[w].original,
                               key |-> key, new_q |-> new_q]]
    /\ last' = WorkerStep
    /\ UNCHANGED <<serviceVars, storeVars, rl_settings, current_state, previous_state,
                   last_action, current_epsilon, episode_count, action_history,
                   cache_lock, op_count>>

\* self.q_table[(state, action)] = new_q, the agent's fields restored in the
\* finally block, the answer
WFeedbackWrite(w) ==
    /\ workers[w].pc = "write"
    /\ event_loop_runs(workers, w)
    /\ q_table' = Put(q_table, workers[w].key, workers[w].new_q)
    /\ previous_state' = workers[w].original.previous_state
    /\ current_state' = workers[w].original.current_state
    /\ last_action' = workers[w].original.last_action
    /\ last' = workers[w].answer @@ [key |-> workers[w].key]
    /\ workers' = [workers EXCEPT ![w] = Idle]
    /\ UNCHANGED <<serviceVars, storeVars, rl_settings, current_epsilon,
                   episode_count, action_history, cache_lock, feedback_log, op_count>>

NextWorkers ==
    \/ \E w \in 1..MaxWorkers : Arrive(w)
    \/ \E w \in 1..MaxWorkers : WDecideStart(w)
    \/ \E w \in 1..MaxWorkers : WDiscoveryReturn(w, WorkersEnv)
    \/ \E w \in 1..MaxWorkers : WMetricsStart(w)
    \/ \E w \in 1..MaxWorkers : WMetricsReturn(w, WorkersEnv)
    \/ \E w \in 1..MaxWorkers : WDecideRest(w, WorkersEnv)
    \/ \E w \in 1..MaxWorkers : WFeedbackStart(w, WorkersEnv)
    \/ \E w \in 1..MaxWorkers : WFeedbackRead(w)
    \/ \E w \in 1..MaxWorkers : WFeedbackWrite(w)

SpecWorkers == Init /\ [][NextWorkers]_vars

----------------------------------------------------------------------------
(* Learning: instance pA cool and pB hot, an untrained table, and cycles of
   one /decide followed by one /feedback for pA, the rewards computed *)

LearningEnv == Env({<<"pA", "pB">>}, {{"pB"}}, FALSE, {FALSE}, 2 * MaxCycles, {}, FALSE, {FALSE}, TRUE)

CycleDecide ==
    /\ last.op # "decide"
    /\ Decide(SERVICE, LearningEnv)

CycleFeedback ==
    /\ last.op = "decide"
    /\ Feedback(SERVICE, "pA", LearningEnv)

NextLearning ==
    \/ CycleDecide
    \/ CycleFeedback

SpecLearning == Init /\ [][NextLearning]_vars

----------------------------------------------------------------------------
(* The decision service over its lifetime: requests, a graceful shutdown and
   the next start-up on the same model directory *)

ServiceEnv == Env({<<"pA", "pB">>}, {{}}, FALSE, {FALSE}, MaxServiceRequests, {}, FALSE, {FALSE}, FALSE)

\* The process ends and starts again.  lifespan holds nothing after its
\* yield and the module installs no signal handler or timer, so the shutdown
\* leaves the model directory as it is; the start-up builds the module state
\* and a new QLearningAgent and calls rl_agent.load_model().
Restart ==
    /\ Get(cache_rotation_counter, SERVICE, 0) + op_count < MaxServiceRequests
    /\ op_count' = Get(cache_rotation_counter, SERVICE, 0) + op_count + 1
    /\ LET loaded_data == ModelPersistence_load_model(files)
           found == loaded_data # <<>>
       IN /\ q_table' = IF found THEN loaded_data[1].q_table ELSE <<>>
          /\ state_encoder' = IF found THEN loaded_data[1].state_encoder
                              ELSE NewEncoder
          /\ episode_count' = IF found THEN loaded_data[1].episode_count ELSE 0
          /\ last' = [op |-> "restart", found |-> found, q_before |-> q_table,
                      disk |-> files]
    /\ service_discovery_cache' = <<>>
    /\ SERVICE_CACHE' = <<>>
    /\ metrics_cache' = <<>>
    /\ decision_cache' = <<>>
    /\ cache_rotation_counter' = <<>>
    /\ load_balancing_tracker' = <<>>
    /\ decision_context_cache' = <<>>
    /\ cb' = [state |-> "CLOSED", failure_count |-> 0, last_failure_time |-> NONE]
    /\ current_state' = NoState
    /\ previous_state' = NoState
    /\ last_action' = NoAction
    /\ current_epsilon' = epsilon_start
    /\ action_history' = <<>>
    /\ rl_settings' = RLAgentSettings
    /\ UNCHANGED <<now, call_log, decision_log, files, saving, workerVars>>

NextService ==
    \/ Decide(SERVICE, ServiceEnv)
    \/ \E pod \in Pods : Feedback(SERVICE, pod, ServiceEnv)
    \/ Restart

SpecService == Init /\ [][NextService]_vars

----------------------------------------------------------------------------
(* POST /benchmark-mode between decisions *)

\* RLAgentSettings.enable_benchmark_mode, in ten-thousandths and percent
enable_benchmark_mode(settings) ==
    [settings EXCEPT !.benchmark_mode = TRUE, !.enable_production_mode = TRUE,
                     !.epsilon_start = 200, !.epsilon_min = 100,
                     !.epsilon_decay_pct = 98]

\* RLAgentSettings.disable_benchmark_mode
disable_benchmark_mode(settings) ==
    [settings EXCEPT !.benchmark_mode = FALSE, !.enable_production_mode = FALSE,
                     !.epsilon_start = 1000, !.epsilon_min = 200,
                     !.epsilon_decay_pct = 99]

\* a toggle that writes the settings and leaves the agent's epsilon alone
toggle_benchmark_mode_settings_only(settings, epsilon, enable) ==
    [settings |-> IF enable THEN enable_benchmark_mode(settings)
                  ELSE disable_benchmark_mode(settings),
     current_epsilon |-> epsilon]

\* toggle_benchmark_mode(enable): the settings and rl_agent.current_epsilon
\* after the call; rl_agent.config is rl_settings.q_learning
toggle_benchmark_mode(settings, epsilon, enable) ==
    IF enable
    THEN [settings |-> [enable_benchmark_mode(settings) EXCEPT
                           !.benchmark_mode = TRUE, !.production_epsilon = 200],
          current_epsilon |-> 200]
    ELSE LET restored == [disable_benchmark_mode(settings) EXCEPT
                             !.benchmark_mode = FALSE]
         IN [settings |-> restored, current_epsilon |-> restored.epsilon_start]

ToggleBenchmarkMode ==
    /\ op_count < MaxModeSwitches
    /\ op_count' = op_count + 1
    /\ \E enable \in BOOLEAN :
         LET r == toggle_benchmark_mode(rl_settings, current_epsilon, enable)
         IN /\ rl_settings' = r.settings
            /\ current_epsilon' = r.current_epsilon
            /\ last' = [op |-> "toggle", enable |-> enable, before |-> rl_settings,
                        epsilon_before |-> current_epsilon,
                        previous |-> IF last.op = "toggle"
                                     THEN [op |-> "toggle", enable |-> last.enable,
                                           before |-> last.before]
                                     ELSE [op |-> last.op]]
    /\ UNCHANGED <<serviceVars, storeVars, workerVars, q_table, current_state,
                   previous_state, last_action, episode_count, action_history>>

ModeEnv == Env({<<"pA", "pB">>}, {{}}, FALSE, {FALSE}, MaxModeRequests, {}, FALSE, {FALSE}, FALSE)

NextMode ==
    \/ Decide(SERVICE, ModeEnv)
    \/ ToggleBenchmarkMode

SpecMode == Init /\ [][NextMode]_vars

----------------------------------------------------------------------------
(* QLearningAgent._update_q_value on its own: any table and arguments *)

UpdateValues == {-1000, 0, 500}

\* every table over two states and two actions with values of UpdateValues
UpdateTables ==
    UNION {[keys -> UpdateValues] : keys \in SUBSET ({S0, S1} \X {"pA", "pB"})}

InitUpdate ==
    /\ now = 0
    /\ service_discovery_cache = <<>>
    /\ SERVICE_CACHE = <<>>
    /\ metrics_cache = <<>>
    /\ decision_cache = <<>>
    /\ cache_rotation_counter = <<>>
    /\ load_balancing_tracker = <<>>
    /\ decision_context_cache = <<>>
    /\ cb = [state |-> "CLOSED", failure_count |-> 0, last_failure_time |-> NONE]
    /\ q_table \in UpdateTables
    /\ current_state = NoState
    /\ previous_state = NoState
    /\ last_action = NoAction
    /\ current_epsilon = epsilon_start
    /\ episode_count = 0
    /\ action_history = <<>>
    /\ call_log = <<>>
    /\ decision_log = <<>>
    /\ state_encoder = NewEncoder
    /\ files = NoFiles
    /\ saving = NotSaving
    /\ rl_settings = RLAgentSettings
    /\ workers = NoWorkers
    /\ cache_lock = NONE
    /\ feedback_log = <<>>
    /\ op_count = 0
    /\ last = [op |-> "none"]

\* QLearningAgent._update_q_value(state, action, reward, next_state)
UpdateQValue ==
    /\ op_count < MaxUpdates
    /\ op_count' = op_count + 1
    /\ \E state \in {S0, S1}, action \in {"pA", "pB"}, reward \in {-500, 800},
          next_state \in {S0, S1} :
         /\ q_table' = update_q_value(q_table, state, action, reward, next_state)
         /\ last' = [op |-> "update", state |-> state, action |-> action,
                     reward |-> reward, next_state |-> next_state,
                     q_before |-> q_table]
    /\ UNCHANGED <<now, service_discovery_cache, SERVICE_CACHE, metrics_cache, decision_cache,
                   cache_rotation_counter, load_balancing_tracker,
                   decision_context_cache, cb, current_state, previous_state,
                   last_action, current_epsilon, episode_count, action_history,
                   call_log, decision_log, storeVars, rl_settings, workerVars>>

NextUpdate == UpdateQValue

SpecUpdate == InitUpdate /\ [][NextUpdate]_vars

----------------------------------------------------------------------------
(* The agent's own cycle: select_action, update_q_table, start_episode *)

\* QLearningAgent.update_q_table(new_metrics, previous_metrics): the agent
\* fields after the call; nothing changes while a state or the action is None
QLearningAgent_update_q_table(agent, new_metrics, previous_metrics) ==
    IF agent.previous_state = NoState \/ agent.last_action = NoAction
          \/ agent.current_state = NoState
    THEN agent
    ELSE LET reward == calculate_reward(new_metrics, previous_metrics, agent.last_action)
             next_state == encode_state(new_metrics)
         IN [agent EXCEPT
                !.q_table = update_q_value(agent.q_table, agent.previous_state,
                                           agent.last_action, reward, next_state),
                !.current_state = next_state]

\* the metrics a training step collects: the first record cool or hot
CycleMetrics ==
    {<<CoolMetric("pA"), HotMetric("pB")>>, <<HotMetric("pA"), CoolMetric("pB")>>}

\* training step: action = agent.select_action(current_metrics, services)
CycleSelectAction ==
    /\ op_count < MaxCycleSteps
    /\ op_count' = op_count + 1
    /\ \E current_metrics \in CycleMetrics :
       \E r \in QLearningAgent_select_action(AgentFields, current_metrics,
                                             <<"pA", "pB">>) :
         /\ q_table' = r.agent.q_table
         /\ current_state' = r.agent.current_state
         /\ previous_state' = r.agent.previous_state
         /\ last_action' = r.agent.last_action
         /\ action_history' = r.agent.action_history
         /\ last' = [op |-> "select_action", after |-> last.op, action |-> r.action,
                     state_key |-> encode_state(current_metrics)]
    /\ UNCHANGED <<now, service_discovery_cache, SERVICE_CACHE, metrics_cache,
                   decision_cache, cache_rotation_counter, load_balancing_tracker,
                   decision_context_cache, cb, current_epsilon, episode_count,
                   call_log, decision_log, storeVars, rl_settings, workerVars>>

\* training step: agent.update_q_table(new_metrics, self.previous_metrics)
CycleUpdateQTable ==
    /\ op_count < MaxCycleSteps
    /\ op_count' = op_count + 1
    /\ \E new_metrics \in CycleMetrics, previous_metrics \in CycleMetrics :
         LET agent == QLearningAgent_update_q_table(AgentFields, new_metrics,
                                                    previous_metrics)
         IN /\ q_table' = agent.q_table
            /\ current_state' = agent.current_state
            /\ last' = [op |-> "update_q_table", after |-> last.op,
                        select_after |-> IF last.op = "select_action"
                                         THEN last.after ELSE "none",
                        selected_state |-> current_state, action |-> last_action,
                        q_before |-> q_table]
    /\ UNCHANGED <<now, service_discovery_cache, SERVICE_CACHE, metrics_cache,
                   decision_cache, cache_rotation_counter, load_balancing_tracker,
                   decision_context_cache, cb, previous_state, last_action,
                   current_epsilon, episode_count, action_history, call_log,
                   decision_log, storeVars, rl_settings, workerVars>>

\* QLearningAgent.start_episode
start_episode ==
    /\ op_count < MaxCycleSteps
    /\ episode_count < MaxEpisodes
    /\ op_count' = op_count + 1
    /\ episode_count' = episode_count + 1
    /\ current_epsilon' = Max2(epsilon_min, (current_epsilon * epsilon_decay_pct) \div 100)
    /\ current_state' = NoState
    /\ previous_state' = NoState
    /\ last_action' = NoAction
    /\ last' = [op |-> "start_episode"]
    /\ UNCHANGED <<now, service_discovery_cache, SERVICE_CACHE, metrics_cache,
                   decision_cache, cache_rotation_counter, load_balancing_tracker,
                   decision_context_cache, cb, q_table, action_history, call_log,
                   decision_log, storeVars, rl_settings, workerVars>>

NextCycle ==
    \/ CycleSelectAction
    \/ CycleUpdateQTable
    \/ start_episode

SpecCycle == Init /\ [][NextCycle]_vars

----------------------------------------------------------------------------
(* Two services, the name of one a prefix of the other's *)

SERVICE2 == <<"s", "v", "c", "2">>   \* a service whose name starts with SERVICE

Services == {SERVICE, SERVICE2}

ContextsEnv == Env({<<"pA", "pB">>}, {{"pB"}}, FALSE, {FALSE}, MaxContextRequests, 1..MaxContextTime, FALSE, {FALSE}, FALSE)

NextContexts ==
    \/ \E service_name \in Services : Decide(service_name, ContextsEnv)
    \/ \E service_name \in Services, pod \in Pods :
          Feedback(service_name, pod, ContextsEnv)
    \/ Tick(ContextsEnv)

SpecContexts == Init /\ [][NextContexts]_vars

----------------------------------------------------------------------------
(* A registry whose instances are replaced while the service runs *)

\* the load balancer's answers: one instance replaced by another, the
\* number of instances unchanged
RegistryEnv == Env({<<"pA">>, <<"pB">>, <<"pA", "pB">>, <<"pA", "pC">>}, {{}}, FALSE, {FALSE}, MaxRegistryRequests, {MaxRegistryTime}, FALSE, {FALSE}, FALSE)

NextRegistry ==
    \/ Decide(SERVICE, RegistryEnv)
    \/ Tick(RegistryEnv)

SpecRegistry == Init /\ [][NextRegistry]_vars

----------------------------------------------------------------------------
(* The claims *)

\* the outcomes of the last k agent calls the breaker let through
LastCalls(k) == LastN(call_log, k)

\* the breaker b has cooled down at time t
CooledAt(b, t) == (t - b.last_failure_time) * TickSeconds > recovery_timeout

\* /decide just answered, past the decision cache, on a breaker that was OPEN
DecidedOnOpen ==
    /\ last.op = "decide"
    /\ last.outcome = "decision"
    /\ last.via # "cache"
    /\ last.breaker_before.state = "OPEN"

\* C1 (Spec): whenever at least one instance is resolved for the service,
\* /decide returns a decision that names one of the resolved instances and
\* never an error, whether the agent selected, the agent call raised, the
\* breaker was OPEN or the metrics came back empty; an error is returned only
\* when no instance is resolved.
C1_DecideReturnsAnInstance ==
    last.op = "decide" =>
        /\ last.instances # <<>> =>
              /\ last.outcome = "decision"
              /\ last.selected_pod \in Range(last.instances)
        /\ last.outcome = "error" => last.instances = <<>>

\* C1 witness: a decision served by the fallback, without metrics, while the
\* breaker is OPEN after the agent call raised failure_threshold times
C1_Witness ==
    /\ DecidedOnOpen
    /\ last.via = "fallback"
    /\ last.metrics = <<>>
    /\ last.selected_pod \in Range(last.instances)
    /\ Len(call_log) >= failure_threshold
    /\ \A i \in 1..Len(call_log) : ~call_log[i]

\* C2 (SpecSelector): for every state, table, epsilon and non-empty list of
\* available actions, after any history, select_action returns an element of
\* the list.
C2_SelectedActionIsAvailable ==
    (last.op = "select" /\ ~last.raised) =>
        last.action \in Range(last.available_actions)

\* C2 witness: an exploration past the UCB threshold among three actions whose
\* result is not the first of the list
C2_Witness ==
    /\ last.op = "select"
    /\ ~last.raised
    /\ last.selection_type = "exploration"
    /\ Len(last.history_before) > UCB_MIN_HISTORY
    /\ Len(last.available_actions) = 3
    /\ last.action # last.available_actions[1]
    /\ last.action \in Range(last.available_actions)

\* C3 (SpecFeedback): a /feedback call that matches no unconsumed decision
\* context inside the window leaves every value-table entry unchanged.
C3_UnmatchedFeedbackLeavesTable ==
    (last.op = "feedback" /\ ~last.found) => q_table = last.q_before

\* C4 (SpecFeedback): a /feedback call that matches an unconsumed decision
\* context inside the window performs one value-table update, on the
\* (previous_state, last_action) pair of that context and on no other entry,
\* and removes the context: no context with its key is left to be consumed.
C4_MatchedFeedbackConsumesContext ==
    (last.op = "feedback" /\ last.found) =>
        LET ctx == last.context
            key == <<ctx.previous_state, ctx.last_action>>
        IN /\ last.updated
           /\ ctx \in Range(last.contexts_before)
           /\ ctx.last_action = last.selected_pod
           /\ (last.time - ctx.timestamp) * TickSeconds < DECISION_CONTEXT_WINDOW
           /\ key \in DOMAIN q_table
           /\ DOMAIN q_table = DOMAIN last.q_before \cup {key}
           /\ \A k \in DOMAIN last.q_before \ {key} : q_table[k] = last.q_before[k]
           /\ Len(decision_context_cache) = Len(last.contexts_before) - 1
           /\ \A i \in 1..Len(decision_context_cache) :
                 decision_context_cache[i].key # ctx.key

\* C4 witness: a matched feedback that changed the value of its pair and left
\* another context of the same service behind
C4_Witness ==
    /\ last.op = "feedback"
    /\ last.found
    /\ decision_context_cache # <<>>
    /\ LET key == <<last.context.previous_state, last.context.last_action>>
       IN q_table[key] # Get(last.q_before, key, 0)

\* C5 (SpecBreaker): after failure_threshold consecutive failed agent calls
\* through the breaker the breaker is OPEN, and while it is OPEN and has not
\* cooled down a /decide that misses the decision cache is served by the
\* fallback without the agent's selection being invoked.
C5_OpenAfterKFailuresThenFallback ==
    /\ (/\ Len(call_log) >= failure_threshold
        /\ \A i \in 1..failure_threshold : ~LastCalls(failure_threshold)[i])
          => cb.state = "OPEN"
    /\ (DecidedOnOpen /\ ~CooledAt(last.breaker_before, last.time))
          => /\ ~last.invoked
             /\ last.via = "fallback"
             /\ last.decision_type \in {"fallback_intelligent",
                                        "fallback_intelligent_balanced"}
             /\ cb = last.breaker_before

\* C5 witness: a /decide served by the fallback on the OPEN breaker, inside the
\* cooldown, right after failure_threshold failures in a row
C5_Witness ==
    /\ DecidedOnOpen
    /\ ~CooledAt(last.breaker_before, last.time)
    /\ ~last.invoked
    /\ last.via = "fallback"
    /\ Len(call_log) = failure_threshold
    /\ cb.state = "OPEN"

\* C6 (SpecBreaker): the call that finds the breaker OPEN and cooled down runs
\* as the trial: the agent is invoked; when it succeeds the breaker is CLOSED
\* with failure_count 0, when it fails the breaker is OPEN again with the
\* cooldown restarted at the time of the call, so that no second trial runs
\* before another cooldown; the breaker is never HALF_OPEN between calls.
C6_OneHalfOpenTrial ==
    /\ cb.state # "HALF_OPEN"
    /\ (DecidedOnOpen /\ CooledAt(last.breaker_before, last.time)) =>
          /\ last.invoked
          /\ last.via = "agent" => (cb.state = "CLOSED" /\ cb.failure_count = 0)
          /\ last.via = "fallback" =>
                /\ cb.state = "OPEN"
                /\ cb.last_failure_time = last.time
                /\ ~CooledAt(cb, last.time)

\* C6 witness: a failed trial, the breaker OPEN again
C6_Witness ==
    /\ DecidedOnOpen
    /\ CooledAt(last.breaker_before, last.time)
    /\ last.invoked
    /\ last.via = "fallback"
    /\ cb.state = "OPEN"

\* C7 (SpecBreaker): the breaker leaves CLOSED for OPEN only when the
\* failure_threshold most recent agent calls all failed: failures separated by
\* successes never open it.
C7_OpensOnlyOnConsecutiveFailures ==
    (last.op = "decide" /\ last.breaker_before.state = "CLOSED" /\ cb.state = "OPEN") =>
        /\ Len(call_log) >= failure_threshold
        /\ \A i \in 1..failure_threshold : ~LastCalls(failure_threshold)[i]

\* C8 (SpecUpdate): one update for (s, a, r, s') sets Q(s,a) to
\* Q(s,a) + alpha*(r + gamma*M - Q(s,a)), M the maximum of Q(s',a') over the
\* actions that had a table entry for s' before the update, 0 without one; no
\* entry other than (s,a) is created or changed.
C8_BellmanUpdate ==
    last.op = "update" =>
        LET q == last.q_before
            key == <<last.state, last.action>>
            existing == {k \in DOMAIN q : k[1] = last.next_state}
            M == IF existing = {} THEN 0 ELSE SetMax({q[k] : k \in existing})
            old == Get(q, key, 0)
            target == last.reward + (discount_factor_pct * M) \div 100
        IN /\ DOMAIN q_table = DOMAIN q \cup {key}
           /\ q_table[key] = old + (learning_rate_pct * (target - old)) \div 100
           /\ \A k \in DOMAIN q \ {key} : q_table[k] = q[k]

\* an action is over a safety threshold in the metrics supplied
OverThreshold(action, current_metrics) ==
    \E i \in 1..Len(current_metrics) :
       /\ current_metrics[i].instance_id = action
       /\ \A j \in 1..(i - 1) : current_metrics[j].instance_id # action
       /\ \/ current_metrics[i].cpu_usage_percent > CPU_SAFETY_LIMIT
          \/ current_metrics[i].jvm_memory_usage_percent > MEMORY_SAFETY_LIMIT
          \/ current_metrics[i].error_rate_percent > ERROR_RATE_SAFETY_LIMIT

\* C9 (SpecSelector): with safety metrics supplied, exploration returns an
\* action over a threshold only if every available action is over a threshold.
C9_ExplorationAvoidsUnsafe ==
    (/\ last.op = "select"
     /\ ~last.raised
     /\ last.selection_type = "exploration"
     /\ last.current_metrics # <<>>) =>
        (OverThreshold(last.action, last.current_metrics) =>
            \A a \in Range(last.available_actions) :
               OverThreshold(a, last.current_metrics))

\* C10 (Spec): a /decide routed through the agent, on an untrained table and
\* taking the exploration branch, does not return an instance whose collected
\* metrics are over a safety threshold while another resolved instance is
\* within all thresholds.
C10_DecideFiltersUnsafe ==
    (/\ last.op = "decide"
     /\ last.via = "agent"
     /\ last.branch = "exploration"
     /\ q_table = <<>>) =>
        (OverThreshold(last.selected_pod, last.metrics) =>
            \A p \in Range(last.instances) : OverThreshold(p, last.metrics))

\* C11: while a service has at least two instances and their Q-values are
\* tied, no instance is returned more than 8 times in 10 consecutive decisions
\* for the service, whether they came from the agent, the cache or the fallback.
FullWindow ==
    /\ Len(decision_log) = WINDOW
    /\ \A i \in 1..WINDOW : decision_log[i].instances >= 2

Returned(p) == Cardinality({i \in 1..Len(decision_log) : decision_log[i].selected_pod = p})

C11_NoInstanceDominatesAWindow ==
    (FullWindow /\ q_table = <<>>) => \A p \in Pods : Returned(p) <= MAX_SHARE

\* a full window in which one instance holds its 8 and the override has just
\* turned a cached decision away from it
C11_Witness ==
    /\ FullWindow
    /\ q_table = <<>>
    /\ \E p \in Pods : Returned(p) = MAX_SHARE
    /\ last.op = "decide" /\ last.via = "cache"
    /\ last.decision_type \in {"exploration_balanced", "exploitation_balanced",
                               "fallback_intelligent_balanced"}

\* C12: /decide answers from the decision cache only while the entry under the
\* request's key is younger than the decision TTL; an older entry sends the
\* request on to the agent or the fallback.
C12_CachedOnlyWhileYoung ==
    (last.op = "decide" /\ last.via = "cache")
        => (last.time - last.cached_at) * TickSeconds * 1000 < CACHE_TTL_DECISION_MS

\* C13: when discovery resolves no instance for the service, the caller of
\* /decide gets the 404 of NoInstancesAvailable and not the generic 500.
C13_NoInstancesIsNotFound ==
    (last.op = "decide" /\ last.instances = <<>>) => last.status = 404

\* C14: when the request to the load balancer fails and the discovery cache
\* holds an earlier non-empty list, even an expired one, /decide goes on with
\* that list and the cache keeps it: a failure never empties the cache.
CachedServices == Get(service_discovery_cache, SERVICE, Entry(<<>>, 0)).value

C14_FailureKeepsCachedServices ==
    [][(last'.op = "decide" /\ last'.discovery = "failed" /\ CachedServices # <<>>)
          => /\ last'.instances = CachedServices
             /\ CachedServices' = CachedServices]_vars

\* C15: select_action on an empty list of available actions raises, and the
\* action history, the value table and the agent's pending previous_state,
\* current_state and last_action are what they were before the call.
C15_EmptySelectionRaisesAndKeepsState ==
    (last.op = "agent_select" /\ last.available_actions = <<>>)
        => /\ last.raised
           /\ AgentFields = last.agent_before

\* the call raised on an agent that had selected and learned before
C15_Witness ==
    /\ last.op = "agent_select" /\ last.available_actions = <<>>
    /\ last.raised
    /\ last.agent_before.last_action # NoAction
    /\ last.agent_before.action_history # <<>>
    /\ last.agent_before.q_table # <<>>

\* C16: a save followed by a load, with no save in between, gives the agent
\* the value table, the encoder fit state and the episode count that were saved,
\* whatever the agent became after the save.
C16_SaveThenLoadRestores ==
    (last.op = "load" /\ saving.stage = "idle" /\ saving.result = "saved")
        => /\ q_table = saving.agent.q_table
           /\ state_encoder.is_fitted = saving.agent.state_encoder.is_fitted
           /\ state_encoder.discretizers = saving.agent.state_encoder.discretizers
           /\ episode_count = saving.agent.episode_count

\* a trained, fitted agent was saved, then reset and fitted anew, then loaded
C16_Witness ==
    /\ last.op = "load" /\ saving.stage = "idle" /\ saving.result = "saved"
    /\ saving.agent.q_table # <<>>
    /\ saving.agent.episode_count > 0
    /\ last.agent_before.q_table = <<>>
    /\ last.agent_before.state_encoder.discretizers
           # saving.agent.state_encoder.discretizers

\* C17: when the model file does not deserialize, load returns the newest
\* backup that does, trying them from newest to oldest, and reports nothing
\* to load only when no retained backup deserializes.
ValidBackups(disk) == {i \in 1..Len(disk.backups) : disk.backups[i].kind = "snapshot"}

C17_LoadTriesEveryBackup ==
    (last.op = "load" /\ last.disk.model # <<>>
                      /\ last.disk.model[1].kind # "snapshot")
        => IF ValidBackups(last.disk) = {} THEN ~last.found
           ELSE /\ last.found
                /\ last.loaded_data[1]
                      = last.disk.backups[SetMin(ValidBackups(last.disk))].data

\* C18: throughout a save the model file is the complete previous snapshot
\* or the complete new one, and a save that failed leaves the previous
\* snapshot in place and loadable and no temporary file in the directory.
C18_SaveIsAtomicAndCleansUp ==
    (saving.stage # "idle" \/ saving.result # "none")
        => /\ files.model \in {saving.previous, <<File("snapshot", saving.snapshot)>>}
           /\ (saving.stage = "idle" /\ saving.result = "failed")
                  => /\ files.model = saving.previous
                     /\ files.temps = <<>>

\* C19: encode_state is a function of its snapshots and the fit state: of two
\* calls under one fit state, equal snapshots get equal StateKeys, and
\* snapshots whose buckets differ in a tracked dimension get different ones,
\* whatever was encoded before.
C19_EncodeDependsOnInputOnly ==
    (last.op = "encode" /\ last.previous.valid /\ last.previous.fit = last.fit)
        => /\ last.previous.metrics = last.metrics => last.previous.state = last.state
           /\ encode_state_fresh(last.fit, last.previous.metrics)
                  # encode_state_fresh(last.fit, last.metrics)
                     => last.previous.state # last.state

\* C20: a metric absent from the snapshot encodes to the middle bucket of its
\* dimension and never to bucket 0, before and after fit.
MiddleBucket(name, fitted) ==
    IF fitted THEN metric_bins[name] \div 2
    ELSE IF name = "error_rate_percent" THEN 1 ELSE 2

C20_AbsentMetricIsMiddleBucket ==
    (last.op = "encode" /\ last.metrics # <<>>)
        => LET names == IF last.fit.is_fitted THEN MetricNames ELSE FastNames
           IN \A i \in 1..Len(names) :
                 last.metrics[1][names[i]] = NONE
                    => /\ last.state[i] # 0
                       /\ last.state[i] = MiddleBucket(names[i], last.fit.is_fitted)

\* C21: every StateKey of one encoder has the same number of components, and
\* a position stands for the same metric in every key the encoder produced,
\* before fit and after it; the default key of the empty input has the same
\* number of components.
C21_KeysKeepTheirLayout ==
    last.op = "encode"
        => /\ Len(last.state) = Len(FastNames)
           /\ Cardinality(last.layouts) <= 1

\* C22: every /feedback that updates the table completes a decision cycle and
\* decays the current epsilon once, to max(epsilon_min, epsilon * decay); no
\* step of the service raises epsilon or takes it below epsilon_min.
C22_EpsilonDecaysOncePerCycle ==
    [][/\ (last'.op = "feedback" /\ last'.updated)
              => current_epsilon'
                    = Max2(epsilon_min, (current_epsilon * epsilon_decay_pct) \div 100)
       /\ current_epsilon' <= current_epsilon
       /\ current_epsilon' >= epsilon_min]_vars

\* C23: the two mode flags of the settings never disagree, so exactly one of
\* learning mode and production mode is active; a /benchmark-mode call leaves
\* the mode it was asked for active and the current epsilon, in the same step,
\* at the production epsilon (enable) or at the start value of the learning
\* schedule then in force (disable).
C23_OneModeAndEpsilonReset ==
    /\ rl_settings.benchmark_mode = rl_settings.enable_production_mode
    /\ last.op = "toggle" =>
          IF last.enable
          THEN /\ rl_settings.benchmark_mode
               /\ current_epsilon = rl_settings.production_epsilon
          ELSE /\ ~rl_settings.benchmark_mode
               /\ current_epsilon = rl_settings.epsilon_start

\* production mode was enabled, served a decision, and has just been disabled
\* again with the epsilon back at the start of the learning schedule
C23_Witness ==
    /\ last.op = "toggle" /\ ~last.enable
    /\ last.before.benchmark_mode
    /\ last.epsilon_before = last.before.production_epsilon
    /\ ~rl_settings.benchmark_mode
    /\ current_epsilon = rl_settings.epsilon_start
    /\ current_epsilon # last.epsilon_before
    /\ decision_cache # <<>>

\* C24: whatever requests are in flight together, once no update is under
\* way the value table is the result of applying the updates of the run one
\* after the other in some order, each to the (state, action) pair of its
\* own decision context (of the agent's pending pair when it matched none):
\* no update is lost and none lands on another pair.
RECURSIVE AppliedInSomeOrder(_, _)
AppliedInSomeOrder(q, pending) ==
    IF pending = {} THEN {q}
    ELSE UNION {AppliedInSomeOrder(
                    update_q_value(q, feedback_log[i].state, feedback_log[i].action,
                                   feedback_log[i].reward, feedback_log[i].next_state),
                    pending \ {i}) : i \in pending}

NoUpdateUnderWay == \A w \in DOMAIN workers : workers[w].pc \notin {"update", "write"}

C24_NoLostUpdate ==
    /\ NoUpdateUnderWay => q_table \in AppliedInSomeOrder(<<>>, DOMAIN feedback_log)
    /\ (last.op = "feedback" /\ last.updated)
          => last.key = <<last.state, last.action>>

\* two /feedback requests for one pair were in flight together and both
\* updated it
C24_Witness ==
    /\ NoUpdateUnderWay
    /\ Len(feedback_log) = 2
    /\ feedback_log[1].state = feedback_log[2].state
    /\ feedback_log[1].action = feedback_log[2].action
    /\ feedback_log[1].in_flight > 0
    /\ last.op = "feedback" /\ last.updated
    /\ q_table[last.key] # update_q_value(<<>>, last.state, last.action,
                                          last.applied, last.next_state)[last.key]

\* C25: no worker is inside a discovery or metrics collaborator call while
\* it holds the cache lock.
C25_NoFetchUnderCacheLock ==
    \A w \in DOMAIN workers :
       workers[w].pc \in {"discovery_call", "metrics_call"} => cache_lock # w

\* C26: every decision /decide returns for a service with two or more
\* instances, from the agent, the fallback or the decision cache, is the
\* output of one call of the anti-starvation override on the pod that path
\* chose, and the service's window of recent selections gains exactly one
\* entry, the returned instance (the oldest entries leave beyond 10).
C26_OverrideOncePerDecision ==
    [][(/\ cache_rotation_counter' # cache_rotation_counter
        /\ last'.op = "decide" /\ last'.outcome = "decision"
        /\ Len(last'.instances) >= 2)
          => LET before == Get(load_balancing_tracker, last'.service, <<>>)
                 after == Get(load_balancing_tracker', last'.service, <<>>)
             IN /\ last'.via \in {"agent", "fallback", "cache"}
                /\ [pod |-> last'.selected_pod, tracker |-> after]
                      \in apply_load_balancing_override(before, last'.chosen,
                                                        last'.instances)
                /\ after = Append(LastN(before, 9), last'.selected_pod)]_vars

\* the three paths have each returned a decision for two instances, and the
\* last one, from the cache, was turned to another pod by the override
C26_Witness ==
    /\ last.op = "decide" /\ last.outcome = "decision"
    /\ Len(last.instances) >= 2
    /\ last.via = "cache"
    /\ last.selected_pod # last.chosen
    /\ LET tracker == Get(load_balancing_tracker, last.service, <<>>)
       IN /\ Len(tracker) = WINDOW
          /\ tracker[Len(tracker)] = last.selected_pod
    /\ \E i \in 1..Len(call_log) : call_log[i]
    /\ \E i \in 1..Len(call_log) : ~call_log[i]

\* C27: when the agent call raised or the breaker rejected it and the service
\* has two or more instances, /decide returns an instance whose count in the
\* service's window of recent selections is the minimum over the available
\* instances (any instance when the window is empty), and the instances the
\* fallback can pick are the same whatever the order of the instance list.
FallbackCandidates(window, pods) ==
    IF window = <<>> THEN pods
    ELSE {p \in pods : \A o \in pods : Count(window, p) <= Count(window, o)}

C27_FallbackPicksLeastUsed ==
    [][(/\ cache_rotation_counter' # cache_rotation_counter
        /\ last'.op = "decide" /\ last'.outcome = "decision"
        /\ last'.via = "fallback"
        /\ Len(last'.instances) >= 2)
          => LET window == Get(load_balancing_tracker, last'.service, <<>>)
             IN /\ last'.selected_pod
                      \in FallbackCandidates(window, Range(last'.instances))
                /\ \A pods \in {<<"pA", "pB">>, <<"pB", "pA">>} :
                      fallback_pods(window, pods) = FallbackCandidates(window, Pods)]_vars

\* the breaker rejected the call and the fallback returned the second
\* instance of the list, used less in the window than the first
C27_Witness ==
    /\ last.op = "decide" /\ last.outcome = "decision"
    /\ last.via = "fallback" /\ ~last.invoked
    /\ Len(last.instances) >= 2
    /\ last.selected_pod = last.instances[2]
    /\ LET tracker == Get(load_balancing_tracker, last.service, <<>>)
           window == SubSeq(tracker, 1, Len(tracker) - 1)
       IN /\ Len(tracker) \in 3..(WINDOW - 1)
          /\ Count(window, last.selected_pod) < Count(window, last.instances[1])

\* C28: the new Q(s,a) of an update is a function of the table contents
\* before it and of (state, action, reward, next_state) alone: it is the value
\* computed from them, the same whenever the update is performed on an equal
\* table, also when next_state is state and when (state, action) has no entry.
NewQ(q, state, action, reward, next_state) ==
    LET key == <<state, action>>
        old == IF key \in DOMAIN q THEN q[key] ELSE 0
        read == {q[k] : k \in {kk \in DOMAIN q : kk[1] = next_state}}
                   \cup (IF next_state = state /\ key \notin DOMAIN q THEN {0} ELSE {})
        M == IF read = {} THEN 0 ELSE SetMax(read)
    IN old + (learning_rate_pct * (reward + (discount_factor_pct * M) \div 100 - old))
                \div 100

C28_UpdateIsAFunctionOfItsInputs ==
    last.op = "update" =>
        LET key == <<last.state, last.action>>
        IN /\ q_table[key] = NewQ(last.q_before, last.state, last.action,
                                  last.reward, last.next_state)
           /\ q_table[key] = update_q_value(last.q_before, last.state, last.action,
                                            last.reward, last.next_state)[key]

\* the second update of a run, on a pair without an entry whose next_state is
\* its state, in a table that holds a lower value for the state
C28_Witness ==
    /\ last.op = "update"
    /\ op_count = 2
    /\ last.next_state = last.state
    /\ <<last.state, last.action>> \notin DOMAIN last.q_before
    /\ \E k \in DOMAIN last.q_before : k[1] = last.state /\ last.q_before[k] < 0
    /\ q_table[<<last.state, last.action>>] # 0

\* C29: the value-table changes /feedback makes in the running decision
\* service reach the model directory: the service checkpoints the table on a
\* schedule and on graceful shutdown, so the table loaded at the next start
\* holds the entries the table held when the service shut down.
C29_CheckpointedBeforeRestart ==
    last.op = "restart" =>
        \A k \in DOMAIN last.q_before :
           k \in DOMAIN q_table /\ q_table[k] = last.q_before[k]

\* C30: from an untrained table, with instance pA within all thresholds and
\* pB hot, after 100 cycles of /decide followed by a /feedback for pA in the
\* same state s, Q(s, pA) > Q(s, pB).
QValue(state, action) == Get(q_table, <<state, action>>, 0)

C30_PreferenceLearned ==
    (last.op = "feedback" /\ op_count = MaxCycles)
        => QValue(last.next_state, "pA") > QValue(last.next_state, "pB")

\* the 100th cycle has ended with a good-outcome feedback for pA, and the
\* table holds a value for each instance in s
C30_Witness ==
    /\ last.op = "feedback" /\ op_count = MaxCycles
    /\ last.reward > 0
    /\ last.updated
    /\ last.state = last.next_state
    /\ <<last.next_state, "pA">> \in DOMAIN q_table
    /\ <<last.next_state, "pB">> \in DOMAIN q_table

----------------------------------------------------------------------------
\* the keys of the table whose entry the last update_q_table created or changed
ChangedKeys ==
    {k \in DOMAIN q_table : k \notin DOMAIN last.q_before \/ q_table[k] # last.q_before[k]}

\* C31: in a select-then-update cycle (the select_action follows an update,
\* start_episode or the construction), the update_q_table that follows the
\* select_action changes no entry of the table other than (s, a), where s is
\* the state that select_action encoded from its metrics and a the action it
\* returned.
C31_UpdateOfTheSelectedState ==
    (last.op = "update_q_table" /\ last.after = "select_action"
        /\ last.select_after # "select_action")
        => ChangedKeys \subseteq {<<last.selected_state, last.action>>}

\* C34: an update_q_table with no select_action since the previous update,
\* since start_episode or since construction leaves the table unchanged.
C34_UpdateOnlyAfterSelect ==
    (last.op = "update_q_table" /\ last.after # "select_action")
        => q_table = last.q_before

----------------------------------------------------------------------------
\* the service a decision context was issued for: request.service_name of
\* the /decide that built the key f"{service_name}:{selected_pod}:{ms}"
IssuedFor(ctx, service_name) == StartsWith(ctx.key, service_name \o <<":">>)

\* C32: the decision context a /feedback for a service and an instance
\* consumes was issued by a /decide for that same service and that same
\* instance.
C32_ContextOfTheSameService ==
    (last.op = "feedback" /\ last.found)
        => /\ IssuedFor(last.context, last.service)
           /\ last.context.last_action = last.selected_pod

----------------------------------------------------------------------------
\* the contexts the last /feedback could match: same instance, keys that
\* start with the service name, stored inside the window
MatchingBefore ==
    {i \in 1..Len(last.contexts_before) :
        /\ last.contexts_before[i].last_action = last.selected_pod
        /\ StartsWith(last.contexts_before[i].key, last.service)
        /\ (last.time - last.contexts_before[i].timestamp) * TickSeconds
               < DECISION_CONTEXT_WINDOW}

\* C33: of the unconsumed contexts inside the window that match a /feedback,
\* the one consumed is the most recently issued, and the older ones stay.
C33_ConsumesMostRecentContext ==
    (last.op = "feedback" /\ last.found)
        => /\ \A i \in MatchingBefore :
                 last.contexts_before[i].timestamp <= last.context.timestamp
           /\ \A i \in MatchingBefore :
                 last.contexts_before[i] # last.context
                     => \E j \in 1..Len(decision_context_cache) :
                           decision_context_cache[j] = last.contexts_before[i]

----------------------------------------------------------------------------
\* C35: the instance named in a /decide response, served from the decision
\* cache or not, is one of the instances resolved for the service in that
\* same request, also after an instance was replaced by another.
C35_ResponseNamesAResolvedInstance ==
    (last.op = "decide" /\ last.outcome = "decision")
        => \E i \in 1..Len(last.instances) : last.instances[i] = last.selected_pod

----------------------------------------------------------------------------
\* C36: for a /feedback that updates the table, the reward in the response
\* is the reward update_q_table applied in the Bellman update.
C36_ReturnedRewardIsApplied ==
    (last.op = "feedback" /\ last.updated) => last.reward = last.applied

----------------------------------------------------------------------------
\* a stored context no /feedback can match any more: its window has expired
Expired(ctx) == ~((now - ctx.timestamp) * TickSeconds < DECISION_CONTEXT_WINDOW)

\* C37: a decision context whose matching window has expired without a
\* /feedback is removed: once the service has handled a request after the
\* expiry, the context is no longer stored.
C37_ExpiredContextsAreRemoved ==
    last.op \in {"decide", "feedback"}
        => \A i \in 1..Len(decision_context_cache) :
              ~Expired(decision_context_cache[i])

----------------------------------------------------------------------------
\* the Q-value the last select_action read for an action
SelectedQ(a) == Get(q_table, <<last.state_key, a>>, 0)

MaxSelectedQ == SetMax({SelectedQ(a) : a \in Range(last.available_actions)})

\* the actions whose Q-value is within the tolerance of the maximum
WithinTolerance ==
    LET tolerance == Max2(TOLERANCE_FLOOR, (Abs(MaxSelectedQ) * TOLERANCE_PCT) \div 100)
    IN {a \in Range(last.available_actions) :
           Abs(SelectedQ(a) - MaxSelectedQ) <= tolerance}

\* the three actions of the highest Q-value
TopThree ==
    LET qv == [a \in Range(last.available_actions) |-> SelectedQ(a)]
        sorted == SortDesc(last.available_actions, qv)
    IN Range(SubSeq(sorted, 1, Min2(3, Len(sorted))))

\* how often the single best action was chosen in the last 10 decisions
BestUsage ==
    LET best == CHOOSE a \in WithinTolerance : TRUE
    IN Count(LastN(ActionsOf(last.history_before), 10), best)

\* the usage count of an action in the recent decisions
RecentUsage(a) == Count(LastN(ActionsOf(last.history_before), 15), a)

\* the returned action is one of the least used of a tie set
LeastUsedOf(tie_set) ==
    /\ last.action \in tie_set
    /\ \A a \in tie_set : RecentUsage(last.action) <= RecentUsage(a)

\* C38 as stated: the tie set is widened to the top three whenever the single
\* best action was chosen at least 4 times in the last 10 decisions.
C38_LeastUsedOfTieSet ==
    (last.op = "select" /\ last.selection_type = "exploitation")
        => IF Cardinality(WithinTolerance) = 1 /\ BestUsage >= 4
           THEN LeastUsedOf(TopThree)
           ELSE LeastUsedOf(WithinTolerance)

\* C38 amended: the exploitation branch returns a least used action of the
\* tie set, the actions within the tolerance of the maximum Q-value; the tie
\* set is widened to the top three only when at least 5 decisions are in the
\* history and the single best action was chosen at least 4 times in the
\* last 10; otherwise no action further than the tolerance from the maximum
\* is returned.
C38_LeastUsedOfTieSetAfterFive ==
    (last.op = "select" /\ last.selection_type = "exploitation")
        => IF /\ Cardinality(WithinTolerance) = 1
              /\ Len(last.history_before) >= 5
              /\ BestUsage >= 4
           THEN LeastUsedOf(TopThree)
           ELSE LeastUsedOf(WithinTolerance)

\* C38 witness: an exploitation on a widened tie set that returned an unused action
\* further than the tolerance from the maximum
C38_Witness ==
    /\ last.op = "select" /\ last.selection_type = "exploitation"
    /\ Cardinality(WithinTolerance) = 1
    /\ Len(last.history_before) >= 5 /\ BestUsage >= 4
    /\ last.action \notin WithinTolerance
    /\ RecentUsage(last.action) = 0

----------------------------------------------------------------------------
\* C39: the decision kind of a /decide response that is not a cache replay
\* is 'exploration' exactly when the selector's exploration branch chose the
\* instance, 'exploitation' exactly when its exploitation branch chose it,
\* and the fallback kind exactly when the agent was bypassed or raised.
C39_KindIsTheSelectorsBranch ==
    (last.op = "decide" /\ last.outcome = "decision" /\ last.via # "cache")
        => /\ last.decision_type = "exploration" <=> last.branch = "exploration"
           /\ last.decision_type = "exploitation" <=> last.branch = "exploitation"
           /\ last.decision_type = "fallback_intelligent" <=> last.via = "fallback"

----------------------------------------------------------------------------
\* C40: a /benchmark-mode disable that follows the enable of learning-mode
\* settings leaves epsilon_start, epsilon_min and epsilon_decay at their
\* values before the enable, and the current epsilon at that epsilon_start.
C40_DisableRestoresTheSettings ==
    (/\ last.op = "toggle" /\ ~last.enable
     /\ last.previous.op = "toggle" /\ last.previous.enable
     /\ ~last.previous.before.benchmark_mode)
        => /\ rl_settings.epsilon_start = last.previous.before.epsilon_start
           /\ rl_settings.epsilon_min = last.previous.before.epsilon_min
           /\ rl_settings.epsilon_decay_pct = last.previous.before.epsilon_decay_pct
           /\ current_epsilon = last.previous.before.epsilon_start

====
